---------------------------- MODULE Spec2Model ----------------------------
(***************************************************************************)
(* Model of the aether-proxy edge relay: the HMAC request authenticator    *)
(* (auth/hmac.rs), the per-request dispatcher (proxy/server.rs) and the    *)
(* CONNECT and plain forward handlers (proxy/connect.rs, proxy/plain.rs),  *)
(* the application lifecycle (app.rs), the accept loop and its connection  *)
(* tasks (proxy/server.rs) and the controller heartbeat                    *)
(* (registration/client.rs).                                               *)
(*                                                                         *)
(* Strings are sequences of byte values, so that prefix stripping, base64, *)
(* UTF-8 validation, splitting, decimal parsing and header-name            *)
(* normalisation are computed rather than assumed.  Option values are      *)
(* sequences of length 0 (None / Err) or 1 (Some / Ok).                    *)
(***************************************************************************)
EXTENDS Integers, Sequences, FiniteSets, TLC

VARIABLES
    auth_in,        \* arguments of one validate_proxy_auth call (plus the clock)
    auth_out,       \* its result, "pending" before the call
    now,            \* system clock, Unix seconds
    node_id,        \* AppState.node_id
    dynamic,        \* AppState.dynamic (DynamicConfig snapshot)
    req,            \* the request being served on the connection
    pc,             \* position of the request's service future
    handler,        \* handler the dispatcher chose
    snap,           \* per-request snapshot taken by the service closure
    target,         \* host / port / socket address the handler works on
    resp,           \* response returned to the client
    dials,          \* outbound TCP connects attempted for this request
    upstream_req,   \* request sent upstream by handle_plain
    tunnel,         \* whether the CONNECT tunnel task was spawned
    log,            \* tracing events emitted while serving the request
    config,         \* Config fields the startup reads and may set
    app_pc,         \* position of app::run, the main task
    tls_acceptor,   \* AppState.tls_acceptor, as an Option
    active_connections, \* AppState.active_connections (AtomicU64)
    shutdown,       \* value of the shutdown watch channel
    server_pc,      \* position of the proxy server task (server::run)
    heartbeat_pc,   \* position of the heartbeat task
    conns,          \* per accepted connection: its task, transport and tunnel
    controller,     \* answers the controller gives, and the unregister requests it got
    hb,             \* last heartbeat call: the answer and the result
    process,        \* the process as the system sees it: environment
                    \* variables, arguments, config file, signal received
    relay           \* the CONNECT tunnel task: its position, the two
                    \* directions of the copy and the upstream socket

lifeVars == <<config, app_pc, tls_acceptor, active_connections, shutdown,
              server_pc, heartbeat_pc, conns, controller, hb, process>>

vars == <<auth_in, auth_out, now, node_id, dynamic, req, pc, handler, snap,
          target, resp, dials, upstream_req, tunnel, log, relay, lifeVars>>

\* the variables of one request's service
reqVars == <<auth_in, auth_out, now, req, pc, handler, snap, target, resp,
             dials, upstream_req, tunnel, log, relay>>

proxyVars == <<now, node_id, dynamic, req, pc, handler, snap, target, resp,
               dials, upstream_req, tunnel, log>>

authVars == <<auth_in, auth_out>>

----------------------------------------------------------------------------
(* Bounds of the model                                                     *)

\* The clock and the presented timestamps range over 0..MaxTime.
MaxTime == 4
\* timestamp_tolerance ranges over 0..MaxTolerance.
MaxTolerance == 2
\* Length in bytes of the modelled MAC digest (SHA-256 has 32).
DigestLen == 2

----------------------------------------------------------------------------
(* Option / Result encoding                                                *)

None == <<>>
Some(v) == <<v>>
IsSome(o) == Len(o) = 1
Unwrap(o) == o[1]

----------------------------------------------------------------------------
(* Byte-string helpers (Rust str / slice methods)                          *)

InRange(b, lo, hi) == lo <= b /\ b <= hi

\* char::is_whitespace restricted to ASCII: \t \n \v \f \r and space
IsWhitespace(c) == c \in {9, 10, 11, 12, 13, 32}

RECURSIVE TrimStart(_)
TrimStart(s) ==
    IF Len(s) > 0 /\ IsWhitespace(Head(s)) THEN TrimStart(Tail(s)) ELSE s

RECURSIVE TrimEnd(_)
TrimEnd(s) ==
    IF Len(s) > 0 /\ IsWhitespace(s[Len(s)])
    THEN TrimEnd(SubSeq(s, 1, Len(s) - 1))
    ELSE s

\* str::trim
Trim(s) == TrimEnd(TrimStart(s))

\* str::strip_prefix
StripPrefix(s, p) ==
    IF Len(s) >= Len(p) /\ SubSeq(s, 1, Len(p)) = p
    THEN Some(SubSeq(s, Len(p) + 1, Len(s)))
    ELSE None

\* str::split_once on a one-byte delimiter: splits at its first occurrence
SplitOnce(s, c) ==
    IF \E i \in 1..Len(s) : s[i] = c
    THEN LET i == CHOOSE k \in 1..Len(s) :
                      s[k] = c /\ \A j \in 1..(k - 1) : s[j] # c
         IN  Some(<<SubSeq(s, 1, i - 1), SubSeq(s, i + 1, Len(s))>>)
    ELSE None

\* ASCII lower-casing of one byte and of a byte string
LowerByte(b) == IF InRange(b, 65, 90) THEN b + 32 ELSE b
ToAsciiLowercase(s) == [i \in 1..Len(s) |-> LowerByte(s[i])]

----------------------------------------------------------------------------
(* base64::engine::general_purpose::STANDARD                               *)

\* "ABCDEFGHIJKLMNOPQRSTUVWXYZabcdefghijklmnopqrstuvwxyz0123456789+/"
B64Alphabet ==
    <<65, 66, 67, 68, 69, 70, 71, 72, 73, 74, 75, 76, 77, 78, 79, 80, 81, 82,
      83, 84, 85, 86, 87, 88, 89, 90, 97, 98, 99, 100, 101, 102, 103, 104,
      105, 106, 107, 108, 109, 110, 111, 112, 113, 114, 115, 116, 117, 118,
      119, 120, 121, 122, 48, 49, 50, 51, 52, 53, 54, 55, 56, 57, 43, 47>>

\* "="
B64Pad == <<61>>

\* 6-bit value of a symbol, -1 for a byte outside the alphabet
B64Table ==
    [c \in 0..255 |->
        IF \E i \in 1..64 : B64Alphabet[i] = c
        THEN (CHOOSE i \in 1..64 : B64Alphabet[i] = c) - 1
        ELSE -1]

B64Value(c) == B64Table[c]

\* STANDARD.encode: three bytes to four symbols, '=' padded
RECURSIVE B64Encode(_)
B64Encode(b) ==
    IF Len(b) = 0 THEN <<>>
    ELSE IF Len(b) = 1 THEN
        <<B64Alphabet[(b[1] \div 4) + 1],
          B64Alphabet[((b[1] % 4) * 16) + 1]>> \o B64Pad \o B64Pad
    ELSE IF Len(b) = 2 THEN
        <<B64Alphabet[(b[1] \div 4) + 1],
          B64Alphabet[((b[1] % 4) * 16) + (b[2] \div 16) + 1],
          B64Alphabet[((b[2] % 16) * 4) + 1]>> \o B64Pad
    ELSE
        <<B64Alphabet[(b[1] \div 4) + 1],
          B64Alphabet[((b[1] % 4) * 16) + (b[2] \div 16) + 1],
          B64Alphabet[((b[2] % 16) * 4) + (b[3] \div 64) + 1],
          B64Alphabet[(b[3] % 64) + 1]>> \o B64Encode(SubSeq(b, 4, Len(b)))

\* bytes of a sequence of 6-bit values (a final group of 2 or 3 values
\* gives 1 or 2 bytes)
RECURSIVE B64Bytes(_)
B64Bytes(v) ==
    IF Len(v) < 2 THEN <<>>
    ELSE IF Len(v) = 2 THEN <<(v[1] * 4) + (v[2] \div 16)>>
    ELSE IF Len(v) = 3 THEN
        <<(v[1] * 4) + (v[2] \div 16), ((v[2] % 16) * 16) + (v[3] \div 4)>>
    ELSE
        <<(v[1] * 4) + (v[2] \div 16),
          ((v[2] % 16) * 16) + (v[3] \div 4),
          ((v[3] % 4) * 64) + v[4]>> \o B64Bytes(SubSeq(v, 5, Len(v)))

\* STANDARD.decode: canonical padding required, no symbol outside the
\* alphabet, no non-zero trailing bits.  None models Err(DecodeError).
B64Decode(s) ==
    LET n    == Len(s)
        pad  == IF n >= 2 /\ s[n] = B64Pad[1]
                THEN (IF s[n - 1] = B64Pad[1] THEN 2 ELSE 1)
                ELSE 0
        body == SubSeq(s, 1, n - pad)
        vals == [i \in 1..Len(body) |-> B64Value(body[i])]
    IN  IF n % 4 # 0 THEN None
        ELSE IF \E i \in 1..Len(vals) : vals[i] = -1 THEN None
        ELSE IF pad = 2 /\ vals[Len(vals)] % 16 # 0 THEN None
        ELSE IF pad = 1 /\ vals[Len(vals)] % 4 # 0 THEN None
        ELSE Some(B64Bytes(vals))

----------------------------------------------------------------------------
(* String::from_utf8: well-formed UTF-8 byte sequences                     *)

IsCont(s, i) == i <= Len(s) /\ InRange(s[i], 128, 191)
ByteIn(s, i, lo, hi) == i <= Len(s) /\ InRange(s[i], lo, hi)

RECURSIVE Utf8ValidFrom(_, _)
Utf8ValidFrom(s, i) ==
    IF i > Len(s) THEN TRUE
    ELSE LET b == s[i] IN
        IF b <= 127 THEN Utf8ValidFrom(s, i + 1)
        ELSE IF InRange(b, 194, 223) THEN
            IsCont(s, i + 1) /\ Utf8ValidFrom(s, i + 2)
        ELSE IF b = 224 THEN
            ByteIn(s, i + 1, 160, 191) /\ IsCont(s, i + 2)
            /\ Utf8ValidFrom(s, i + 3)
        ELSE IF InRange(b, 225, 236) \/ InRange(b, 238, 239) THEN
            IsCont(s, i + 1) /\ IsCont(s, i + 2) /\ Utf8ValidFrom(s, i + 3)
        ELSE IF b = 237 THEN
            ByteIn(s, i + 1, 128, 159) /\ IsCont(s, i + 2)
            /\ Utf8ValidFrom(s, i + 3)
        ELSE IF b = 240 THEN
            ByteIn(s, i + 1, 144, 191) /\ IsCont(s, i + 2) /\ IsCont(s, i + 3)
            /\ Utf8ValidFrom(s, i + 4)
        ELSE IF InRange(b, 241, 243) THEN
            IsCont(s, i + 1) /\ IsCont(s, i + 2) /\ IsCont(s, i + 3)
            /\ Utf8ValidFrom(s, i + 4)
        ELSE IF b = 244 THEN
            ByteIn(s, i + 1, 128, 143) /\ IsCont(s, i + 2) /\ IsCont(s, i + 3)
            /\ Utf8ValidFrom(s, i + 4)
        ELSE FALSE

Utf8Valid(s) == Utf8ValidFrom(s, 1)

----------------------------------------------------------------------------
(* Decimal conversion: `"{}"` formatting of a u64 and str::parse::<u64>    *)

IsDigit(c) == InRange(c, 48, 57)

\* format!("{}", n)
RECURSIVE FormatU64(_)
FormatU64(n) ==
    IF n < 10 THEN <<48 + n>> ELSE FormatU64(n \div 10) \o <<48 + (n % 10)>>

RECURSIVE StripLeadingZeros(_)
StripLeadingZeros(d) ==
    IF Len(d) > 1 /\ Head(d) = 48 THEN StripLeadingZeros(Tail(d)) ELSE d

RECURSIVE DigitsValue(_)
DigitsValue(d) ==
    IF Len(d) = 0 THEN 0
    ELSE (DigitsValue(SubSeq(d, 1, Len(d) - 1)) * 10) + (d[Len(d)] - 48)

\* "18446744073709551615", u64::MAX
U64MaxDigits ==
    <<49, 56, 52, 52, 54, 55, 52, 52, 48, 55, 51, 55, 48, 57, 53, 53, 49, 54,
      49, 53>>

\* whether the digit string denotes a value <= u64::MAX (decided on the
\* digits, the value itself may exceed the checker's integers)
FitsU64(d) ==
    LET z == StripLeadingZeros(d) IN
        \/ Len(z) < Len(U64MaxDigits)
        \/ /\ Len(z) = Len(U64MaxDigits)
           /\ \/ z = U64MaxDigits
              \/ \E i \in 1..Len(z) :
                    /\ z[i] < U64MaxDigits[i]
                    /\ \A j \in 1..(i - 1) : z[j] = U64MaxDigits[j]

\* <u64 as FromStr>::from_str: an optional leading '+', then one or more
\* ASCII digits, value at most u64::MAX.  None models Err(ParseIntError).
ParseU64(s) ==
    LET d == IF Len(s) > 0 /\ Head(s) = 43 THEN Tail(s) ELSE s IN
        IF Len(d) = 0 THEN None
        ELSE IF \E i \in 1..Len(d) : ~IsDigit(d[i]) THEN None
        ELSE IF ~FitsU64(d) THEN None
        ELSE Some(DigitsValue(StripLeadingZeros(d)))

\* u64::abs_diff
AbsDiff(a, b) == IF a >= b THEN a - b ELSE b - a


----------------------------------------------------------------------------
(* HMAC-SHA256 and hex::encode                                             *)

\* "0123456789abcdef"
HexDigits ==
    <<48, 49, 50, 51, 52, 53, 54, 55, 56, 57, 97, 98, 99, 100, 101, 102>>

\* hex::encode: two lower-case hex digits per byte
RECURSIVE HexEncode(_)
HexEncode(b) ==
    IF Len(b) = 0 THEN <<>>
    ELSE <<HexDigits[(Head(b) \div 16) + 1], HexDigits[(Head(b) % 16) + 1]>>
         \o HexEncode(Tail(b))

DigestModulus == 256 ^ DigestLen

RECURSIVE Absorb(_, _)
Absorb(h, bytes) ==
    IF Len(bytes) = 0 THEN h
    ELSE Absorb(((h * 31) + Head(bytes) + 1) % DigestModulus, Tail(bytes))

RECURSIVE BigEndian(_, _)
BigEndian(h, n) ==
    IF n = 0 THEN <<>> ELSE BigEndian(h \div 256, n - 1) \o <<h % 256>>

\* HmacSha256::new_from_slice(key), update(msg), finalize().into_bytes():
\* a keyed digest of DigestLen bytes.  The digest is a computed function of
\* key and message; HmacCollisionFree states that it separates the keys
\* and messages of the model, the property HMAC-SHA256 is relied on for.
HmacSha256(key, msg) ==
    BigEndian(Absorb(Absorb(Absorb(7, key), <<255>>), msg), DigestLen)

----------------------------------------------------------------------------
(* auth/hmac.rs: validate_proxy_auth                                       *)

\* "Basic " and "basic "
SchemeBasic == <<66, 97, 115, 105, 99, 32>>
SchemeBasicLower == <<98, 97, 115, 105, 99, 32>>

\* "hmac"
UsernameHmac == <<104, 109, 97, 99>>

\* ':' '.' and '\n'
Colon == <<58>>
Dot == <<46>>
Newline == <<10>>

AuthErrors ==
    {"MissingHeader", "InvalidBasicAuth", "InvalidUsername",
     "InvalidPasswordFormat", "TimestampParseError", "TimestampExpired",
     "SignatureMismatch"}

\* header.strip_prefix("Basic ").or_else(|| header.strip_prefix("basic "))
StripScheme(header) ==
    IF IsSome(StripPrefix(header, SchemeBasic))
    THEN StripPrefix(header, SchemeBasic)
    ELSE StripPrefix(header, SchemeBasicLower)

\* diff > timestamp_tolerance
TimestampOutsideWindow_inclusive(diff, timestamp_tolerance) ==
    diff >= timestamp_tolerance

TimestampOutsideWindow(diff, timestamp_tolerance) ==
    diff > timestamp_tolerance

\* format!("{}\n{}", timestamp_str, node_id)
AuthPayload_unbound(timestamp_str, nid) == timestamp_str \o Newline

AuthPayload(timestamp_str, nid) == timestamp_str \o Newline \o nid

\* hex::encode(mac.finalize().into_bytes())
ExpectedHex(hmac_key, timestamp_str, nid) ==
    HexEncode(HmacSha256(hmac_key, AuthPayload(timestamp_str, nid)))

\* subtle::ConstantTimeEq for slices: unequal lengths give 0, otherwise the
\* byte-wise equalities are and-ed over the whole length
CtEq(a, b) ==
    IF Len(a) # Len(b) THEN 0
    ELSE IF \A i \in 1..Len(a) : a[i] = b[i] THEN 1 ELSE 0

\* sig_bytes.len() == exp_bytes.len() && sig_bytes.ct_eq(exp_bytes) == 1
SignatureMatches_prefix(sig_bytes, exp_bytes) ==
    \A i \in 1..Len(sig_bytes) : i <= Len(exp_bytes) /\ sig_bytes[i] = exp_bytes[i]

SignatureMatches(sig_bytes, exp_bytes) ==
    ~(Len(sig_bytes) # Len(exp_bytes) \/ CtEq(sig_bytes, exp_bytes) # 1)

\* The result of validate_proxy_auth: "Ok" or the AuthError kind.  `clock`
\* is the value SystemTime::now() yields during the call.  The variant
\* below compares the signature before it looks at the timestamp window.
validate_proxy_auth_signature_first(proxy_auth_header, hmac_key, nid, timestamp_tolerance, clock) ==
    IF ~IsSome(proxy_auth_header) THEN "MissingHeader"
    ELSE LET encoded == StripScheme(Unwrap(proxy_auth_header)) IN
    IF ~IsSome(encoded) THEN "InvalidBasicAuth"
    ELSE LET decoded_bytes == B64Decode(Trim(Unwrap(encoded))) IN
    IF ~IsSome(decoded_bytes) THEN "InvalidBasicAuth"
    ELSE IF ~Utf8Valid(Unwrap(decoded_bytes)) THEN "InvalidBasicAuth"
    ELSE LET user_pass == SplitOnce(Unwrap(decoded_bytes), Colon[1]) IN
    IF ~IsSome(user_pass) THEN "InvalidBasicAuth"
    ELSE LET username == Unwrap(user_pass)[1]
             password == Unwrap(user_pass)[2]
         IN
    IF username # UsernameHmac THEN "InvalidUsername"
    ELSE LET ts_sig == SplitOnce(password, Dot[1]) IN
    IF ~IsSome(ts_sig) THEN "InvalidPasswordFormat"
    ELSE LET timestamp_str == Unwrap(ts_sig)[1]
             signature_hex == Unwrap(ts_sig)[2]
             timestamp     == ParseU64(timestamp_str)
         IN
    IF ~IsSome(timestamp) THEN "TimestampParseError"
    ELSE IF ~SignatureMatches(signature_hex,
                              ExpectedHex(hmac_key, timestamp_str, nid))
         THEN "SignatureMismatch"
    ELSE IF TimestampOutsideWindow(AbsDiff(clock, Unwrap(timestamp)),
                                   timestamp_tolerance)
         THEN "TimestampExpired"
    ELSE "Ok"

validate_proxy_auth(proxy_auth_header, hmac_key, nid, timestamp_tolerance, clock) ==
    IF ~IsSome(proxy_auth_header) THEN "MissingHeader"
    ELSE LET encoded == StripScheme(Unwrap(proxy_auth_header)) IN
    IF ~IsSome(encoded) THEN "InvalidBasicAuth"
    ELSE LET decoded_bytes == B64Decode(Trim(Unwrap(encoded))) IN
    IF ~IsSome(decoded_bytes) THEN "InvalidBasicAuth"
    ELSE IF ~Utf8Valid(Unwrap(decoded_bytes)) THEN "InvalidBasicAuth"
    ELSE LET user_pass == SplitOnce(Unwrap(decoded_bytes), Colon[1]) IN
    IF ~IsSome(user_pass) THEN "InvalidBasicAuth"
    ELSE LET username == Unwrap(user_pass)[1]
             password == Unwrap(user_pass)[2]
         IN
    IF username # UsernameHmac THEN "InvalidUsername"
    ELSE LET ts_sig == SplitOnce(password, Dot[1]) IN
    IF ~IsSome(ts_sig) THEN "InvalidPasswordFormat"
    ELSE LET timestamp_str == Unwrap(ts_sig)[1]
             signature_hex == Unwrap(ts_sig)[2]
             timestamp     == ParseU64(timestamp_str)
         IN
    IF ~IsSome(timestamp) THEN "TimestampParseError"
    ELSE IF TimestampOutsideWindow(AbsDiff(clock, Unwrap(timestamp)),
                                   timestamp_tolerance)
         THEN "TimestampExpired"
    ELSE IF ~SignatureMatches(signature_hex,
                              ExpectedHex(hmac_key, timestamp_str, nid))
         THEN "SignatureMismatch"
    ELSE "Ok"

----------------------------------------------------------------------------
(* Clients of the verifier: how a credential is minted (the wire format,   *)
(* as in make_valid_auth) and the headers the model presents               *)

\* Config.hmac_key of the node: "k"
HmacKey == <<107>>
\* a key the node does not hold: "x"
ForeignKey == <<120>>

\* node ids the controller hands out: "N" and "M"
NodeIds == {<<78>>, <<77>>}

\* format!("Basic {}", STANDARD.encode(format!("hmac:{}.{}", now, sig)))
\* with the scheme token, the username and the timestamp text as parameters
MakeAuthHeader(scheme, username, timestamp_str, sig) ==
    scheme \o B64Encode(username \o Colon \o timestamp_str \o Dot \o sig)

\* the signature a client holding `key` computes for `nid`
ClientSignature(key, timestamp_str, nid) ==
    HexEncode(HmacSha256(key, AuthPayload(timestamp_str, nid)))

\* the next lower-case hex digit, cyclically ('f' -> '0'); other bytes kept
NextHexDigit(c) ==
    IF \E i \in 1..16 : HexDigits[i] = c
    THEN HexDigits[((CHOOSE i \in 1..16 : HexDigits[i] = c) % 16) + 1]
    ELSE c

\* ASCII upper-casing of a byte string
ToAsciiUppercase(s) ==
    [i \in 1..Len(s) |-> IF InRange(s[i], 97, 122) THEN s[i] - 32 ELSE s[i]]

\* e with the byte at position i changed
FlipAt(e, i) == [e EXCEPT ![i] = NextHexDigit(e[i])]

\* presented signatures derived from a signature e: itself, every
\* single-byte change, the upper-case spelling, one byte short, one byte
\* long, the empty one
SigVariants(e) ==
    {e} \cup {FlipAt(e, i) : i \in 1..Len(e)}
        \cup {ToAsciiUppercase(e), SubSeq(e, 1, Len(e) - 1), e \o <<48>>, <<>>}

\* decimal timestamps 0..MaxTime as a client formats them
DecimalTimestamps == {FormatU64(t) : t \in 0..MaxTime}

\* other timestamp texts: "+1" and "01" parse as 1; "", "-1", "1x", " 1"
\* and "18446744073709551616" (u64::MAX + 1) do not parse
OddTimestamps ==
    {<<43, 49>>, <<48, 49>>, <<>>, <<45, 49>>, <<49, 120>>, <<32, 49>>,
     <<49, 56, 52, 52, 54, 55, 52, 52, 48, 55, 51, 55, 48, 57, 53, 53, 49,
       54, 49, 54>>}

TimestampTexts == DecimalTimestamps \cup OddTimestamps

\* scheme tokens: "Basic ", "basic ", "BASIC ", "bAsIc ", "Basic" (no
\* space) and "Bearer "
SchemeTokens ==
    {SchemeBasic, SchemeBasicLower, <<66, 65, 83, 73, 67, 32>>,
     <<98, 65, 115, 73, 99, 32>>, <<66, 97, 115, 105, 99>>,
     <<66, 101, 97, 114, 101, 114, 32>>}

\* usernames: "hmac", "user", "HMAC", ""
Usernames == {UsernameHmac, <<117, 115, 101, 114>>, <<72, 77, 65, 67>>, <<>>}

\* The parts a client assembles a credential from.
Cred(scheme, username, ts, sig) ==
    [scheme |-> scheme, username |-> username, ts |-> ts, sig |-> sig]

\* well-formed credentials: every timestamp text, signed for either node
\* with either key, in every signature variant
SignedCreds ==
    UNION {
        {Cred(SchemeBasic, UsernameHmac, t, v) :
            v \in UNION {SigVariants(ClientSignature(k, t, n)) :
                           <<k, n>> \in {HmacKey, ForeignKey} \X NodeIds}} :
        t \in TimestampTexts}

\* the same credential under every scheme token
SchemeCreds ==
    {Cred(c[1], UsernameHmac, c[2], ClientSignature(HmacKey, c[2], c[3])) :
        c \in SchemeTokens \X DecimalTimestamps \X NodeIds}

\* other usernames, with a right and with an empty signature
UsernameCreds ==
    UNION {
        {Cred(SchemeBasic, c[1], c[2], ClientSignature(HmacKey, c[2], <<78>>)),
         Cred(SchemeBasic, c[1], c[2], <<>>)} :
        c \in Usernames \X DecimalTimestamps}

Creds == SignedCreds \cup SchemeCreds \cup UsernameCreds

\* values that are not a credential at all: the empty value; "Basic " with
\* nothing; "Basic !!!!" (not base64); "Basic aG1hYw" (padding missing);
\* "Basic aG1hYx==" (trailing bits); base64 of "hmac" (no ':'), of "hmac:1"
\* (no '.') and of the bytes ff 3a 31 2e (not UTF-8); base64 of "user:1"
\* and of "hmac:1:2"; a credential framed by blanks after the scheme
MalformedHeaders ==
    {<<>>, SchemeBasic, SchemeBasic \o <<33, 33, 33, 33>>,
     SchemeBasic \o <<97, 71, 49, 104, 89, 119>>,
     SchemeBasic \o <<97, 71, 49, 104, 89, 120, 61, 61>>,
     SchemeBasic \o B64Encode(UsernameHmac),
     SchemeBasic \o B64Encode(UsernameHmac \o Colon \o <<49>>),
     SchemeBasic \o B64Encode(<<255, 58, 49, 46>>),
     SchemeBasic \o B64Encode(<<117, 115, 101, 114>> \o Colon \o <<49>>),
     SchemeBasic \o B64Encode(UsernameHmac \o Colon \o <<49>> \o Colon \o <<50>>),
     SchemeBasic \o <<32, 9>>
        \o B64Encode(UsernameHmac \o Colon \o <<49>> \o Dot
                     \o ClientSignature(HmacKey, <<49>>, <<78>>))
        \o <<32>>}

\* What a client presents: the Option<&str> header value on the wire and,
\* when it was assembled as a credential, the parts it was assembled from
\* (`made`, otherwise None).  The verifier reads `header` only.
AuthPresentations ==
    {[header |-> None, made |-> None]}
    \cup {[header |-> Some(h), made |-> None] : h \in MalformedHeaders}
    \cup {[header |-> Some(MakeAuthHeader(c.scheme, c.username, c.ts, c.sig)),
           made |-> Some(c)] : c \in Creds}

\* HMAC-SHA256 separates distinct (key, message) pairs; the modelled digest
\* does so on every pair the model signs or verifies
HmacCollisionFree ==
    LET pairs == {HmacKey, ForeignKey}
                 \X {AuthPayload(c[1], c[2]) : c \in TimestampTexts \X NodeIds}
    IN  \A p \in pairs : \A q \in pairs :
            HmacSha256(p[1], p[2]) = HmacSha256(q[1], q[2]) => p = q

----------------------------------------------------------------------------
(* HTTP requests as hyper hands them to the service closure                *)

\* header-name byte strings: "proxy-authorization" and "proxy-connection"
NameProxyAuthorization ==
    <<112, 114, 111, 120, 121, 45, 97, 117, 116, 104, 111, 114, 105, 122, 97,
      116, 105, 111, 110>>
NameProxyConnection ==
    <<112, 114, 111, 120, 121, 45, 99, 111, 110, 110, 101, 99, 116, 105, 111,
      110>>

\* "/_aether/delegate" and "/"
DelegatePath ==
    <<47, 95, 97, 101, 116, 104, 101, 114, 47, 100, 101, 108, 101, 103, 97,
      116, 101>>
RootPath == <<47>>

\* one header line as received: name and value bytes
Header(name, value) == [name |-> name, value |-> value]

\* http::HeaderMap built by hyper from the header lines: names are stored
\* lower-cased; iteration yields the names in order of first appearance and
\* for each name its values in order of arrival
RECURSIVE GroupByName(_)
GroupByName(hs) ==
    IF Len(hs) = 0 THEN <<>>
    ELSE LET Same(h) == h.name = Head(hs).name
             Other(h) == h.name # Head(hs).name
         IN  SelectSeq(hs, Same) \o GroupByName(SelectSeq(hs, Other))

HeaderMapOf(lines) ==
    GroupByName([i \in 1..Len(lines) |->
                    Header(ToAsciiLowercase(lines[i].name), lines[i].value)])

\* HeaderMap::get: the first value stored under the name
HeaderGet(map, name) ==
    IF \E i \in 1..Len(map) : map[i].name = name
    THEN Some(map[CHOOSE i \in 1..Len(map) :
                    map[i].name = name /\ \A j \in 1..(i - 1) : map[j].name # name].value)
    ELSE None

\* HeaderValue::to_str: Ok only for visible ASCII (and tab)
HeaderValueToStr(v) ==
    IF \A i \in 1..Len(v) : InRange(v[i], 32, 126) \/ v[i] = 9
    THEN Some(v)
    ELSE None

\* req.headers().get("proxy-authorization").and_then(|v| v.to_str().ok())
ProxyAuthOf(request) ==
    LET v == HeaderGet(HeaderMapOf(request.headers), NameProxyAuthorization) IN
        IF IsSome(v) THEN HeaderValueToStr(Unwrap(v)) ELSE None

\* http::Uri::path: the path_and_query up to '?', "" when the URI has no
\* path (authority form)
UriPath(uri) ==
    IF ~IsSome(uri.path_and_query) THEN <<>>
    ELSE LET pq == Unwrap(uri.path_and_query) IN
         IF IsSome(SplitOnce(pq, 63)) THEN Unwrap(SplitOnce(pq, 63))[1] ELSE pq

\* Uri::host and Uri::port_u16
UriHost(uri) ==
    IF IsSome(uri.authority) THEN Some(Unwrap(uri.authority).host) ELSE None
UriPort(uri) ==
    IF IsSome(uri.authority) THEN Unwrap(uri.authority).port ELSE None

\* Option::unwrap_or
UnwrapOr(o, d) == IF IsSome(o) THEN Unwrap(o) ELSE d

----------------------------------------------------------------------------
(* Target filter (proxy/target_filter.rs is not part of the sources; the   *)
(* policy is the one of the specification's section 4.B)                   *)

\* literal IPv4 hosts of the model and their addresses
LiteralIps ==
    [h \in {"93.184.216.34", "10.0.0.1", "127.0.0.1"} |->
        IF h = "93.184.216.34" THEN <<93, 184, 216, 34>>
        ELSE IF h = "10.0.0.1" THEN <<10, 0, 0, 1>>
        ELSE <<127, 0, 0, 1>>]

\* loopback, link-local, private, multicast, unspecified, broadcast
IsBlockedIp(ip) ==
    \/ ip[1] = 127
    \/ ip[1] = 169 /\ ip[2] = 254
    \/ ip[1] = 10
    \/ ip[1] = 172 /\ InRange(ip[2], 16, 31)
    \/ ip[1] = 192 /\ ip[2] = 168
    \/ InRange(ip[1], 224, 239)
    \/ ip = <<0, 0, 0, 0>>
    \/ ip = <<255, 255, 255, 255>>

\* what the resolver may answer for a DNS name: failure (None) or a
\* non-empty list of addresses
DnsAnswers ==
    {None,
     Some(<<<<93, 184, 216, 34>>>>),
     Some(<<<<192, 168, 1, 5>>>>),
     Some(<<<<93, 184, 216, 34>>, <<10, 0, 0, 1>>>>)}

\* validate_target(host, port, allowed_ports) for resolver answer `dns`:
\* [addr |-> Some(<<ip, port>>), err |-> "none"] or addr None and err the
\* error kind
validate_target(host, port, allowed_ports, dns) ==
    IF port \notin allowed_ports
    THEN [addr |-> None, err |-> "PortNotAllowed"]
    ELSE LET ips == IF host \in DOMAIN LiteralIps
                    THEN Some(<<LiteralIps[host]>>)
                    ELSE dns
         IN  IF ~IsSome(ips) THEN [addr |-> None, err |-> "ResolutionFailed"]
             ELSE IF \E i \in 1..Len(Unwrap(ips)) : IsBlockedIp(Unwrap(ips)[i])
             THEN [addr |-> None, err |-> "BlockedAddress"]
             ELSE [addr |-> Some(<<Unwrap(ips)[1], port>>), err |-> "none"]

----------------------------------------------------------------------------
(* Responses and log events built by the handlers                          *)

\* impl Display for AuthError
AuthErrorDisplay(e) ==
    CASE e = "MissingHeader" -> "missing Proxy-Authorization header"
      [] e = "InvalidBasicAuth" -> "invalid Basic auth encoding"
      [] e = "InvalidUsername" -> "username must be 'hmac'"
      [] e = "InvalidPasswordFormat" -> "password format must be 'timestamp.signature'"
      [] e = "TimestampParseError" -> "invalid timestamp"
      [] e = "TimestampExpired" -> "timestamp outside tolerance window"
      [] e = "SignatureMismatch" -> "HMAC signature mismatch"

Response(status, headers, body) ==
    [status |-> status, headers |-> headers, body |-> body]

\* connect.rs: proxy_auth_required, forbidden, bad_request, bad_gateway
connect_proxy_auth_required_401(msg) ==
    Response(401, <<<<"WWW-Authenticate", "HMAC-SHA256">>,
                    <<"Content-Length", "0">>, <<"X-Error", msg>>>>, "empty")

connect_proxy_auth_required(msg) ==
    Response(407, <<<<"Proxy-Authenticate", "HMAC-SHA256">>,
                    <<"Content-Length", "0">>, <<"X-Error", msg>>>>, "empty")

connect_forbidden(msg) ==
    Response(403, <<<<"Content-Length", "0">>, <<"X-Error", msg>>>>, "empty")

connect_bad_request(msg) ==
    Response(400, <<<<"Content-Length", "0">>, <<"X-Error", msg>>>>, "empty")

connect_bad_gateway(msg) ==
    Response(502, <<<<"Content-Length", "0">>, <<"X-Error", msg>>>>, "empty")

\* plain.rs: proxy_auth_required, forbidden, bad_request, bad_gateway, each
\* with the body of empty_box()
plain_proxy_auth_required(msg) ==
    Response(407, <<<<"Proxy-Authenticate", "HMAC-SHA256">>, <<"X-Error", msg>>>>,
             "empty")

plain_forbidden(msg) == Response(403, <<<<"X-Error", msg>>>>, "empty")

plain_bad_request(msg) == Response(400, <<<<"X-Error", msg>>>>, "empty")

plain_bad_gateway(msg) == Response(502, <<<<"X-Error", msg>>>>, "empty")

\* a tracing event: level, message and the value of its `error` field
\* ("" when the event has none)
Event(level, message, error) ==
    [level |-> level, message |-> message, error |-> error]

\* tracing levels in increasing severity
LevelRank(level) ==
    CASE level = "TRACE" -> 0
      [] level = "DEBUG" -> 1
      [] level = "INFO" -> 2
      [] level = "WARN" -> 3
      [] level = "ERROR" -> 4

\* warn!(error = %e, "CONNECT auth failed") / "HTTP proxy auth failed"
AuthFailedEvent(h, e) ==
    Event("WARN",
          IF h = "connect" THEN "CONNECT auth failed" ELSE "HTTP proxy auth failed",
          AuthErrorDisplay(e))

\* the header copy loop of handle_plain: every (name, value) of the
\* HeaderMap except proxy-authorization and proxy-connection
IsProxyHeader_auth_only(name) == name = NameProxyAuthorization

IsProxyHeader(name) ==
    name = NameProxyAuthorization \/ name = NameProxyConnection

OutgoingHeaders(map) ==
    LET Kept(h) == ~IsProxyHeader(h.name) IN SelectSeq(map, Kept)

\* Request::builder().method(..).uri(path_and_query).version(..) with the
\* copied headers; the variant below passes the client's URI on as it came
\* ("http://" and the host before the path)
OutgoingRequest_absolute(request) ==
    [method  |-> request.method,
     uri     |-> IF IsSome(request.uri.authority)
                 THEN <<104, 116, 116, 112, 58, 47, 47>>
                        \o UnwrapOr(request.uri.path_and_query, <<>>)
                 ELSE UnwrapOr(request.uri.path_and_query, RootPath),
     version |-> request.version,
     headers |-> OutgoingHeaders(HeaderMapOf(request.headers))]

OutgoingRequest(request) ==
    [method  |-> request.method,
     uri     |-> UnwrapOr(request.uri.path_and_query, RootPath),
     version |-> request.version,
     headers |-> OutgoingHeaders(HeaderMapOf(request.headers))]

----------------------------------------------------------------------------
(* config.rs: Config, ConfigFile and inject_env; main.rs: the steps of     *)
(* main before app::run                                                    *)

\* the fields of Config and of ConfigFile
ConfigFields ==
    {"aether_url", "management_token", "hmac_key", "listen_port", "public_ip",
     "node_name", "node_region", "heartbeat_interval", "allowed_ports",
     "timestamp_tolerance", "log_level", "log_json", "enable_tls", "tls_cert",
     "tls_key"}

\* the type of each field: String, u16, u64, bool or Vec<u16>
FieldKind(f) ==
    CASE f = "listen_port" -> "u16"
      [] f \in {"heartbeat_interval", "timestamp_tolerance"} -> "u64"
      [] f \in {"log_json", "enable_tls"} -> "bool"
      [] f = "allowed_ports" -> "ports"
      [] OTHER -> "string"

\* #[arg(env = "...")] of each field of Config
ConfigEnvName ==
    [f \in ConfigFields |->
        CASE f = "aether_url" -> "AETHER_PROXY_AETHER_URL"
          [] f = "management_token" -> "AETHER_PROXY_MANAGEMENT_TOKEN"
          [] f = "hmac_key" -> "AETHER_PROXY_HMAC_KEY"
          [] f = "listen_port" -> "AETHER_PROXY_LISTEN_PORT"
          [] f = "public_ip" -> "AETHER_PROXY_PUBLIC_IP"
          [] f = "node_name" -> "AETHER_PROXY_NODE_NAME"
          [] f = "node_region" -> "AETHER_PROXY_NODE_REGION"
          [] f = "heartbeat_interval" -> "AETHER_PROXY_HEARTBEAT_INTERVAL"
          [] f = "allowed_ports" -> "AETHER_PROXY_ALLOWED_PORTS"
          [] f = "timestamp_tolerance" -> "AETHER_PROXY_TIMESTAMP_TOLERANCE"
          [] f = "log_level" -> "AETHER_PROXY_LOG_LEVEL"
          [] f = "log_json" -> "AETHER_PROXY_LOG_JSON"
          [] f = "enable_tls" -> "AETHER_PROXY_ENABLE_TLS"
          [] f = "tls_cert" -> "AETHER_PROXY_TLS_CERT"
          [] f = "tls_key" -> "AETHER_PROXY_TLS_KEY"]

\* the variable each line of inject_env sets from each field of ConfigFile
InjectEnvName ==
    [f \in ConfigFields |->
        CASE f = "aether_url" -> "AETHER_PROXY_AETHER_URL"
          [] f = "management_token" -> "AETHER_PROXY_MANAGEMENT_TOKEN"
          [] f = "hmac_key" -> "AETHER_PROXY_HMAC_KEY"
          [] f = "listen_port" -> "AETHER_PROXY_LISTEN_PORT"
          [] f = "public_ip" -> "AETHER_PROXY_PUBLIC_IP"
          [] f = "node_name" -> "AETHER_PROXY_NODE_NAME"
          [] f = "node_region" -> "AETHER_PROXY_NODE_REGION"
          [] f = "heartbeat_interval" -> "AETHER_PROXY_HEARTBEAT_INTERVAL"
          [] f = "timestamp_tolerance" -> "AETHER_PROXY_TIMESTAMP_TOLERANCE"
          [] f = "log_level" -> "AETHER_PROXY_LOG_LEVEL"
          [] f = "log_json" -> "AETHER_PROXY_LOG_JSON"
          [] f = "enable_tls" -> "AETHER_PROXY_ENABLE_TLS"
          [] f = "tls_cert" -> "AETHER_PROXY_TLS_CERT"
          [] f = "tls_key" -> "AETHER_PROXY_TLS_KEY"
          [] f = "allowed_ports" -> "AETHER_PROXY_ALLOWED_PORTS"]

EnvNames == {ConfigEnvName[f] : f \in ConfigFields}

\* fields without default_value and not Option: clap requires them
RequiredFields == {"aether_url", "management_token", "hmac_key"}

\* "true", "false", ","
TextTrue == <<116, 114, 117, 101>>
TextFalse == <<102, 97, 108, 115, 101>>
Comma == <<44>>

\* default_value / default_values_t of each field (None: an Option field
\* or a required one)
DefaultValue(f) ==
    CASE f = "listen_port" -> Some(18080)
      [] f = "node_name" -> Some(<<112, 114, 111, 120, 121, 45, 48, 49>>)
      [] f = "heartbeat_interval" -> Some(30)
      [] f = "allowed_ports" -> Some(<<80, 443, 8080, 8443>>)
      [] f = "timestamp_tolerance" -> Some(300)
      [] f = "log_level" -> Some(<<105, 110, 102, 111>>)
      [] f = "log_json" -> Some(FALSE)
      [] f = "enable_tls" -> Some(TRUE)
      [] f = "tls_cert" -> Some(<<97, 101, 116, 104, 101, 114, 45, 112, 114, 111,
                                 120, 121, 45, 99, 101, 114, 116, 46, 112, 101, 109>>)
      [] f = "tls_key" -> Some(<<97, 101, 116, 104, 101, 114, 45, 112, 114, 111,
                                120, 121, 45, 107, 101, 121, 46, 112, 101, 109>>)
      [] OTHER -> None

\* ports.iter().map(|p| p.to_string()).collect::<Vec<_>>().join(",")
RECURSIVE JoinPorts(_)
JoinPorts(ports) ==
    IF Len(ports) = 0 THEN <<>>
    ELSE IF Len(ports) = 1 THEN FormatU64(ports[1])
    ELSE FormatU64(ports[1]) \o Comma \o JoinPorts(Tail(ports))

\* v.to_string() of a value of a ConfigFile field
to_string(kind, v) ==
    CASE kind = "string" -> v
      [] kind \in {"u16", "u64"} -> FormatU64(v)
      [] kind = "bool" -> IF v THEN TextTrue ELSE TextFalse
      [] kind = "ports" -> JoinPorts(v)

\* str::parse::<u16>
ParseU16(text) ==
    IF IsSome(ParseU64(text)) /\ Unwrap(ParseU64(text)) <= 65535
    THEN ParseU64(text)
    ELSE None

\* value_delimiter = ',': the text is split at every comma and each piece
\* parsed as u16; None when a piece does not parse
RECURSIVE ParsePorts(_)
ParsePorts(text) ==
    LET cut == SplitOnce(text, Comma[1]) IN
        IF ~IsSome(cut)
        THEN IF IsSome(ParseU16(text)) THEN Some(<<Unwrap(ParseU16(text))>>) ELSE None
        ELSE LET first == ParseU16(Unwrap(cut)[1])
                 rest == ParsePorts(Unwrap(cut)[2])
             IN  IF IsSome(first) /\ IsSome(rest)
                 THEN Some(<<Unwrap(first)>> \o Unwrap(rest))
                 ELSE None

\* clap's value parser of a field applied to the text of an argument or of
\* an environment variable; None models a parse error
ParseValue(kind, text) ==
    IF ~Utf8Valid(text) THEN None
    ELSE CASE kind = "string" -> Some(text)
           [] kind = "u16" -> ParseU16(text)
           [] kind = "u64" -> ParseU64(text)
           [] kind = "bool" -> IF text = TextTrue THEN Some(TRUE)
                               ELSE IF text = TextFalse THEN Some(FALSE)
                               ELSE None
           [] kind = "ports" -> ParsePorts(text)

\* std::env::var(name).is_err(): the variable is not set, or it is set to
\* a value that is not valid Unicode
EnvVarIsErr_unset_only(env, name) == ~IsSome(env[name])

EnvVarIsErr(env, name) ==
    ~IsSome(env[name]) \/ ~Utf8Valid(Unwrap(env[name]))

\* ConfigFile::inject_env: the environment after the call
inject_env(file, env) ==
    [n \in DOMAIN env |->
        IF \E f \in ConfigFields :
              InjectEnvName[f] = n /\ IsSome(file[f]) /\ EnvVarIsErr(env, n)
        THEN LET f == CHOOSE g \in ConfigFields :
                         InjectEnvName[g] = n /\ IsSome(file[g])
             IN  Some(to_string(FieldKind(f), Unwrap(file[f])))
        ELSE env[n]]

\* Config::try_parse for one field: the command-line argument when given,
\* else the environment variable when set, else the default.  The result
\* is [value |-> Option, error |-> BOOLEAN].
ParseField(f, cli, env) ==
    LET text == IF IsSome(cli[f]) THEN cli[f] ELSE env[ConfigEnvName[f]] IN
        IF IsSome(text)
        THEN [value |-> ParseValue(FieldKind(f), Unwrap(text)),
              error |-> ~IsSome(ParseValue(FieldKind(f), Unwrap(text)))]
        ELSE [value |-> DefaultValue(f), error |-> FALSE]

\* Config::try_parse: "invalid" when a value does not parse, "missing" when
\* a required field has no value, else "ok" with the value of every field
try_parse(cli, env) ==
    LET fields == [f \in ConfigFields |-> ParseField(f, cli, env)] IN
        IF \E f \in ConfigFields : fields[f].error
        THEN [kind |-> "invalid", config |-> [f \in ConfigFields |-> None]]
        ELSE IF \E f \in RequiredFields : ~IsSome(fields[f].value)
        THEN [kind |-> "missing", config |-> [f \in ConfigFields |-> None]]
        ELSE [kind |-> "ok", config |-> [f \in ConfigFields |-> fields[f].value]]

\* a process whose configuration is not looked at: no variables, no file,
\* no arguments, no signal received yet
NoEnv == [n \in EnvNames |-> None]
NoFields == [f \in ConfigFields |-> None]
Process(env0, env, file, cli, parsed, signal) ==
    [env0 |-> env0, env |-> env, file |-> file, cli |-> cli, parsed |-> parsed,
     signal |-> signal]
QuietProcess == Process(NoEnv, NoEnv, None, NoFields, None, "none")

----------------------------------------------------------------------------
(* State of the node's lifecycle: app.rs run, the tasks it spawns and the  *)
(* connections the listener accepts                                        *)

\* Connection attempts that reach the listener in one run.
MaxConns == 2
\* config_version values the controller sends range over 0..MaxVersion.
MaxVersion == 2

\* the fields of the parsed Config the startup reads: whether a region is
\* configured, whether TLS is enabled, and the allowed destination ports
StartConfig(node_region, enable_tls, allowed_ports) ==
    [node_region |-> node_region, enable_tls |-> enable_tls,
     allowed_ports |-> allowed_ports]

\* default_values_t of Config.allowed_ports, as a set
DefaultPorts == {80, 443, 8080, 8443}

\* connection attempts, numbered in the order accept() hands them out
ConnIds == 1..MaxConns

\* first bytes a client sends: 0x16 (TLS handshake record) and 'C' (of
\* CONNECT)
FirstBytes == {22, 67}

\* one connection attempt: position of its task ("pending" before accept()
\* returns it), the first byte the client sent (None before the peek),
\* transport chosen by the dual-stack peek, how serve_connection ended, and
\* the state of its CONNECT tunnel task
Conn(p, first, transport, ending, tun) ==
    [pc |-> p, first |-> first, transport |-> transport, ending |-> ending,
     tunnel |-> tun]
NoConn == Conn("pending", None, "none", "none", "none")

\* Consecutive failed re-registrations are counted up to MaxRetries.
MaxRetries == 2

\* the heartbeat task's record: the answer and the result of its last call,
\* and the number of consecutive ticks on which the node was not found and
\* register failed (what the back-off grows with)
Beat(answer, result, failures) ==
    [answer |-> answer, result |-> result, reregister_failures |-> failures]
NoBeat == Beat(None, None, 0)

\* The tunnel task relays at most MaxChunks chunks in each direction.
MaxChunks == 2

\* the tunnel task of a CONNECT request: pc is "none" (not running),
\* "copy" (inside copy_bidirectional) or "ended"; each direction is
\* "open", "done" (its reader saw end-of-stream and the writer of the other
\* side was shut down) or "failed"; from_client and from_target count the
\* chunks copied; target_stream tells whether the task holds the upstream
\* socket; outcome is what the task logged when it ended
Relay(p, c2t, t2c, from_client, from_target, target_stream, outcome) ==
    [pc |-> p, client_to_target |-> c2t, target_to_client |-> t2c,
     from_client |-> from_client, from_target |-> from_target,
     target_stream |-> target_stream, outcome |-> outcome]
NoRelay == Relay("none", "none", "none", 0, 0, "none", "none")

\* the task as tokio::spawn leaves it: it owns the target stream and
\* awaits the upgrade
SpawnedRelay == Relay("upgrade", "none", "none", 0, 0, "held", "none")

\* app::run has not begun: nothing is registered, built or spawned
NodeNotStarted ==
    /\ app_pc = "public_ip"
    /\ tls_acceptor = None
    /\ active_connections = 0
    /\ shutdown = FALSE
    /\ server_pc = "none"
    /\ heartbeat_pc = "none"
    /\ conns = [c \in ConnIds |-> NoConn]
    /\ hb = NoBeat
    /\ process = QuietProcess
    /\ relay = NoRelay

\* the node after startup without TLS, waiting for the shutdown signal,
\* with the first connection accepted and being served
NodeServing ==
    /\ config = StartConfig(TRUE, FALSE, DefaultPorts)
    /\ app_pc = "wait"
    /\ tls_acceptor = None
    /\ active_connections = 1
    /\ shutdown = FALSE
    /\ server_pc = "loop"
    /\ heartbeat_pc = "sleep"
    /\ conns = [c \in ConnIds |->
                  IF c = 1 THEN Conn("serving", Some(67), "plain", "none", "none")
                  ELSE NoConn]
    /\ hb = NoBeat
    /\ process = QuietProcess
    /\ relay = NoRelay

----------------------------------------------------------------------------
(* Specification of the verifier alone: one validate_proxy_auth call on    *)
(* every combination of header, node id, tolerance and clock               *)

\* value of the proxy variables while no request is being served
ProxyIdle ==
    /\ now = 0
    /\ node_id = <<>>
    /\ dynamic = <<>>
    /\ req = <<>>
    /\ pc = "idle"
    /\ handler = "none"
    /\ snap = <<>>
    /\ target = <<>>
    /\ resp = <<>>
    /\ dials = <<>>
    /\ upstream_req = <<>>
    /\ tunnel = FALSE
    /\ log = <<>>

InitAuth ==
    /\ auth_in \in [presented : AuthPresentations,
                    node_id : NodeIds,
                    timestamp_tolerance : 0..MaxTolerance,
                    clock : 0..MaxTime]
    /\ auth_out = "pending"
    /\ ProxyIdle
    /\ config = StartConfig(TRUE, FALSE, DefaultPorts)
    /\ controller = [heartbeat |-> {}, register |-> {}, unregister |-> {},
                    unregistered |-> <<>>]
    /\ NodeNotStarted

\* the call itself
AuthCall ==
    /\ auth_out = "pending"
    /\ auth_out' = validate_proxy_auth(auth_in.presented.header, HmacKey,
                                       auth_in.node_id,
                                       auth_in.timestamp_tolerance,
                                       auth_in.clock)
    /\ UNCHANGED <<lifeVars, relay>>
    /\ UNCHANGED <<auth_in, proxyVars>>

NextAuth == AuthCall

SpecAuth == InitAuth /\ [][NextAuth]_vars

----------------------------------------------------------------------------
(* Properties of the verifier                                              *)

AuthDone == auth_out # "pending"

\* the call was made on a credential "Basic base64(hmac:{ts}.{sig})" whose
\* timestamp text parses
WellFormedCall ==
    /\ AuthDone
    /\ IsSome(auth_in.presented.made)
    /\ Unwrap(auth_in.presented.made).scheme = SchemeBasic
    /\ Unwrap(auth_in.presented.made).username = UsernameHmac
    /\ IsSome(ParseU64(Unwrap(auth_in.presented.made).ts))

MadeTs == Unwrap(auth_in.presented.made).ts
MadeSig == Unwrap(auth_in.presented.made).sig

\* |now - ts| of the call
ClockDistance == AbsDiff(auth_in.clock, Unwrap(ParseU64(MadeTs)))

\* the signature a client holding the node's key computes for node nid
RightSignatureFor(nid) == ClientSignature(HmacKey, MadeTs, nid)

\* C1 (replay bound): a header whose signature is right for the current
\* node_id is accepted when |now - ts| <= timestamp_tolerance and rejected
\* with TimestampExpired when |now - ts| > timestamp_tolerance.
C1_ReplayBound ==
    (WellFormedCall /\ MadeSig = RightSignatureFor(auth_in.node_id))
    => /\ ClockDistance <= auth_in.timestamp_tolerance => auth_out = "Ok"
       /\ ClockDistance > auth_in.timestamp_tolerance
            => auth_out = "TimestampExpired"

\* C1 witness: a credential stamped exactly timestamp_tolerance seconds
\* ago (tolerance not 0) has been accepted.
C1_Witness ==
    /\ WellFormedCall
    /\ MadeSig = RightSignatureFor(auth_in.node_id)
    /\ auth_in.timestamp_tolerance >= 1
    /\ auth_in.clock >= auth_in.timestamp_tolerance
    /\ MadeTs = FormatU64(auth_in.clock - auth_in.timestamp_tolerance)
    /\ auth_out = "Ok"

\* C2 (node binding): a credential signed for node A with a timestamp
\* inside the tolerance is rejected with SignatureMismatch by a node whose
\* node_id is another one.
C2_NodeBinding ==
    \A a \in NodeIds :
        (/\ WellFormedCall
         /\ a # auth_in.node_id
         /\ MadeSig = RightSignatureFor(a)
         /\ ClockDistance <= auth_in.timestamp_tolerance)
        => auth_out = "SignatureMismatch"

\* C2 witness: a fresh credential signed for the other node was rejected
\* with SignatureMismatch.
C2_Witness ==
    \E a \in NodeIds :
        /\ WellFormedCall
        /\ a # auth_in.node_id
        /\ MadeSig = RightSignatureFor(a)
        /\ ClockDistance <= auth_in.timestamp_tolerance
        /\ auth_out = "SignatureMismatch"

\* whether two byte strings differ in length or in at least one byte
DiffersFrom(sig, e) ==
    Len(sig) # Len(e) \/ \E i \in 1..Len(e) : sig[i] # e[i]

\* C3 (signature comparison): with a timestamp inside the tolerance, a
\* presented signature of another length than the expected one, or
\* differing from it in at least one byte, is rejected; only the expected
\* signature itself is accepted.
C3_SignatureComparison ==
    (WellFormedCall /\ ClockDistance <= auth_in.timestamp_tolerance)
    => /\ DiffersFrom(MadeSig, RightSignatureFor(auth_in.node_id))
            => auth_out = "SignatureMismatch"
       /\ auth_out = "Ok" <=> MadeSig = RightSignatureFor(auth_in.node_id)

\* C3 witness: a signature of the right length that differs from the
\* expected one in its last byte only was rejected.
C3_Witness ==
    /\ WellFormedCall
    /\ ClockDistance <= auth_in.timestamp_tolerance
    /\ LET e == RightSignatureFor(auth_in.node_id) IN
        /\ MadeSig # e
        /\ MadeSig = FlipAt(e, Len(e))
    /\ auth_out = "SignatureMismatch"

\* the call was made on a credential whose scheme token spells "basic "
\* in some letter case, and the same credential under "Basic " is valid
ValidUnderBasic ==
    /\ AuthDone
    /\ IsSome(auth_in.presented.made)
    /\ ToAsciiLowercase(Unwrap(auth_in.presented.made).scheme) = SchemeBasicLower
    /\ validate_proxy_auth(
            Some(MakeAuthHeader(SchemeBasic, Unwrap(auth_in.presented.made).username,
                                MadeTs, MadeSig)),
            HmacKey, auth_in.node_id, auth_in.timestamp_tolerance,
            auth_in.clock) = "Ok"

\* C5 (scheme token matched case-insensitively): a header that is valid
\* with the prefix "Basic " is accepted under every other letter case of
\* the scheme token as well.
C5_SchemeCaseInsensitive == ValidUnderBasic => auth_out = "Ok"

\* the parts the presented credential was assembled from
Made == Unwrap(auth_in.presented.made)

\* the call was made on an assembled credential whose scheme token the
\* verifier strips, whose username is "hmac" and whose timestamp text is ts
StepsPassedUpTo(what) ==
    /\ AuthDone
    /\ IsSome(auth_in.presented.made)
    /\ Made.scheme \in {SchemeBasic, SchemeBasicLower}
    /\ what \in {"username", "timestamp", "window"} => Made.username = UsernameHmac
    /\ what \in {"timestamp", "window"} => IsSome(ParseU64(Made.ts))
    /\ what = "window" => ClockDistance <= auth_in.timestamp_tolerance

\* header values that fail before the username is looked at, and header
\* values whose username is right and whose password has no '.'
BrokenEncodings ==
    {<<>>, SchemeBasic, SchemeBasic \o <<33, 33, 33, 33>>,
     SchemeBasic \o <<97, 71, 49, 104, 89, 119>>,
     SchemeBasic \o <<97, 71, 49, 104, 89, 120, 61, 61>>,
     SchemeBasic \o B64Encode(UsernameHmac),
     SchemeBasic \o B64Encode(<<255, 58, 49, 46>>)}
DotlessPasswords ==
    {SchemeBasic \o B64Encode(UsernameHmac \o Colon \o <<49>>),
     SchemeBasic \o B64Encode(UsernameHmac \o Colon \o <<49>> \o Colon \o <<50>>)}

\* C30 (order of the checks): the verifier returns the error of the first
\* failing step -- no header: MissingHeader; scheme, base64, UTF-8 or ':':
\* InvalidBasicAuth; username: InvalidUsername, whatever the password;
\* no '.': InvalidPasswordFormat; timestamp text: TimestampParseError;
\* window: TimestampExpired, whatever the signature; signature:
\* SignatureMismatch.
C30_FirstFailingStep ==
    AuthDone
    => /\ ~IsSome(auth_in.presented.header) => auth_out = "MissingHeader"
       /\ (IsSome(auth_in.presented.header)
            /\ Unwrap(auth_in.presented.header) \in BrokenEncodings)
            => auth_out = "InvalidBasicAuth"
       /\ (IsSome(auth_in.presented.made)
            /\ Made.scheme \notin {SchemeBasic, SchemeBasicLower})
            => auth_out = "InvalidBasicAuth"
       /\ (StepsPassedUpTo("scheme") /\ Made.username # UsernameHmac)
            => auth_out = "InvalidUsername"
       /\ (IsSome(auth_in.presented.header)
            /\ Unwrap(auth_in.presented.header)
                 = SchemeBasic \o B64Encode(<<117, 115, 101, 114>> \o Colon \o <<49>>))
            => auth_out = "InvalidUsername"
       /\ (IsSome(auth_in.presented.header)
            /\ Unwrap(auth_in.presented.header) \in DotlessPasswords)
            => auth_out = "InvalidPasswordFormat"
       /\ (StepsPassedUpTo("username") /\ ~IsSome(ParseU64(Made.ts)))
            => auth_out = "TimestampParseError"
       /\ (StepsPassedUpTo("timestamp")
            /\ ClockDistance > auth_in.timestamp_tolerance)
            => auth_out = "TimestampExpired"
       /\ (StepsPassedUpTo("window")
            /\ Made.sig # ClientSignature(HmacKey, Made.ts, auth_in.node_id))
            => auth_out = "SignatureMismatch"
       /\ (StepsPassedUpTo("window")
            /\ Made.sig = ClientSignature(HmacKey, Made.ts, auth_in.node_id))
            => auth_out = "Ok"

\* C30 witness: a credential that is both outside the window and signed
\* for the other node was rejected with TimestampExpired.
C30_Witness ==
    /\ StepsPassedUpTo("timestamp")
    /\ ClockDistance > auth_in.timestamp_tolerance
    /\ \E n \in NodeIds :
          n # auth_in.node_id /\ Made.sig = ClientSignature(HmacKey, Made.ts, n)
    /\ auth_out = "TimestampExpired"

----------------------------------------------------------------------------
(* Requests the model serves                                               *)

\* the node's id in this specification: "N"; the other node: "M"
ThisNode == <<78>>
OtherNode == <<77>>

\* Config.allowed_ports default (80,443,8080,8443) and the tolerance the
\* node starts with
InitialDynamic ==
    [allowed_ports |-> {80, 443, 8080, 8443},
     timestamp_tolerance |-> MaxTolerance,
     config_version |-> 0]

\* DynamicConfig::from_config (runtime.rs is not part of the sources): the
\* snapshot a node starts with holds the configured ports and tolerance
\* and version 0
from_config(cfg) == [InitialDynamic EXCEPT !.allowed_ports = cfg.allowed_ports]

\* a credential for timestamp t as the client of node `nid` mints it
Minted(t, nid) ==
    MakeAuthHeader(SchemeBasic, UsernameHmac, FormatU64(t),
                   ClientSignature(HmacKey, FormatU64(t), nid))

\* the instants a credential is stamped with, relative to the clock of the
\* proxy specification (MaxTime): now, the edge of the window, one second
\* beyond it
StampNow == MaxTime
StampEdge == MaxTime - MaxTolerance
StampOld == MaxTime - MaxTolerance - 1

\* Proxy-Authorization values: valid (stamped now and at the edge of the
\* window); expired; expired and signed for the other node; fresh but
\* signed for the other node; last signature byte changed; username
\* "user"; "hmac:1" (no '.'); timestamp "1x"; "Basic !!!!"; scheme "BASIC ";
\* a value with a byte outside visible ASCII
ProxyAuthValues ==
    {Minted(StampNow, ThisNode),
     Minted(StampEdge, ThisNode),
     Minted(StampOld, ThisNode),
     Minted(StampOld, OtherNode),
     Minted(StampNow, OtherNode),
     MakeAuthHeader(SchemeBasic, UsernameHmac, FormatU64(StampNow),
                    FlipAt(ClientSignature(HmacKey, FormatU64(StampNow), ThisNode),
                           2 * DigestLen)),
     MakeAuthHeader(SchemeBasic, <<117, 115, 101, 114>>, FormatU64(StampNow),
                    ClientSignature(HmacKey, FormatU64(StampNow), ThisNode)),
     SchemeBasic \o B64Encode(UsernameHmac \o Colon \o <<49>>),
     MakeAuthHeader(SchemeBasic, UsernameHmac, <<49, 120>>,
                    ClientSignature(HmacKey, <<49, 120>>, ThisNode)),
     SchemeBasic \o <<33, 33, 33, 33>>,
     MakeAuthHeader(<<66, 65, 83, 73, 67, 32>>, UsernameHmac, FormatU64(StampNow),
                    ClientSignature(HmacKey, FormatU64(StampNow), ThisNode)),
     SchemeBasic \o <<200>>}

\* header lines around a Proxy-Authorization value a:
\*   Host: example.com / Proxy-Authorization: a
\*   proxy-authorization: a / Accept: */* / Proxy-Connection: keep-alive
\*   PROXY-AUTHORIZATION: a / X-Trace: 1 / Proxy-Authorization: <valid> /
\*     x-trace: 2 / PROXY-CONNECTION: keep-alive / proxy-connection: close
HeaderLinesWith(a) ==
    {<<Header(<<72, 111, 115, 116>>,
              <<101, 120, 97, 109, 112, 108, 101, 46, 99, 111, 109>>),
       Header(<<80, 114, 111, 120, 121, 45, 65, 117, 116, 104, 111, 114, 105,
                122, 97, 116, 105, 111, 110>>, a)>>,
     <<Header(NameProxyAuthorization, a),
       Header(<<65, 99, 99, 101, 112, 116>>, <<42, 47, 42>>),
       Header(<<80, 114, 111, 120, 121, 45, 67, 111, 110, 110, 101, 99, 116,
                105, 111, 110>>, <<107, 101, 101, 112, 45, 97, 108, 105, 118, 101>>)>>,
     <<Header(<<80, 82, 79, 88, 89, 45, 65, 85, 84, 72, 79, 82, 73, 90, 65, 84,
                73, 79, 78>>, a),
       Header(<<88, 45, 84, 114, 97, 99, 101>>, <<49>>),
       Header(<<80, 114, 111, 120, 121, 45, 65, 117, 116, 104, 111, 114, 105,
                122, 97, 116, 105, 111, 110>>, Minted(StampNow, ThisNode)),
       Header(<<120, 45, 116, 114, 97, 99, 101>>, <<50>>),
       Header(<<80, 82, 79, 88, 89, 45, 67, 79, 78, 78, 69, 67, 84, 73, 79, 78>>,
              <<107, 101, 101, 112, 45, 97, 108, 105, 118, 101>>),
       Header(NameProxyConnection, <<99, 108, 111, 115, 101>>)>>}

\* header lines without any Proxy-Authorization:
\*   Host: example.com / Accept: */*      and      Proxy-Connection: keep-alive
HeaderLinesWithout ==
    {<<Header(<<72, 111, 115, 116>>,
              <<101, 120, 97, 109, 112, 108, 101, 46, 99, 111, 109>>),
       Header(<<65, 99, 99, 101, 112, 116>>, <<42, 47, 42>>)>>,
     <<Header(<<80, 114, 111, 120, 121, 45, 67, 111, 110, 110, 101, 99, 116,
                105, 111, 110>>, <<107, 101, 101, 112, 45, 97, 108, 105, 118, 101>>)>>}

RequestHeaderLines ==
    HeaderLinesWithout \cup UNION {HeaderLinesWith(a) : a \in ProxyAuthValues}

\* http::Uri in its parsed form
Uri(authority, path_and_query) ==
    [authority |-> authority, path_and_query |-> path_and_query]
Authority(host, port) == [host |-> host, port |-> port]

\* authority form (CONNECT targets): example.com:443, example.com,
\* 10.0.0.1:443, example.com:22
\* absolute form: http://example.com/index.html, http://example.com:8443/,
\* http://127.0.0.1/index.html, http://93.184.216.34:22/,
\* http://example.com/_aether/delegate
\* origin form: /index.html, /_aether/delegate, /_aether/delegate?x=1,
\* /_aether/delegate/x
RequestUris ==
    {Uri(Some(Authority("example.com", Some(443))), None),
     Uri(Some(Authority("example.com", None)), None),
     Uri(Some(Authority("10.0.0.1", Some(443))), None),
     Uri(Some(Authority("example.com", Some(22))), None),
     Uri(Some(Authority("example.com", None)),
         Some(<<47, 105, 110, 100, 101, 120, 46, 104, 116, 109, 108>>)),
     Uri(Some(Authority("example.com", Some(8443))), Some(RootPath)),
     Uri(Some(Authority("127.0.0.1", None)),
         Some(<<47, 105, 110, 100, 101, 120, 46, 104, 116, 109, 108>>)),
     Uri(Some(Authority("93.184.216.34", Some(22))), Some(RootPath)),
     Uri(Some(Authority("example.com", None)), Some(DelegatePath)),
     Uri(None, Some(<<47, 105, 110, 100, 101, 120, 46, 104, 116, 109, 108>>)),
     Uri(None, Some(DelegatePath)),
     Uri(None, Some(DelegatePath \o <<63, 120, 61, 49>>)),
     Uri(None, Some(DelegatePath \o <<47, 120>>))}

RequestMethods == {"CONNECT", "GET", "POST"}

RequestVersions == {"HTTP/1.1", "HTTP/1.0"}

Requests ==
    [method : RequestMethods, uri : RequestUris, version : RequestVersions,
     headers : RequestHeaderLines]

\* statuses an upstream origin answers with
UpstreamStatuses == {200, 403}

\* header of an upstream response
UpstreamHeaders == <<<<"content-type", "text/event-stream">>>>

----------------------------------------------------------------------------
(* proxy/server.rs serve_connection: the service closure                   *)

NoSnapshot == [node_id |-> <<>>, allowed_ports |-> {}, timestamp_tolerance |-> 0]
NoTarget == [host |-> "", port |-> 0, addr |-> None, err |-> "none"]
NoResponse == Response(0, <<>>, "empty")
NoCall == [presented |-> [header |-> None, made |-> None],
           node_id |-> <<>>, timestamp_tolerance |-> 0, clock |-> 0]

InitProxy ==
    /\ auth_in = NoCall
    /\ auth_out = "pending"
    /\ now = MaxTime
    /\ node_id = ThisNode
    /\ dynamic = InitialDynamic
    /\ req \in Requests
    /\ pc = "recv"
    /\ handler = "none"
    /\ snap = NoSnapshot
    /\ target = NoTarget
    /\ resp = NoResponse
    /\ dials = <<>>
    /\ upstream_req = None
    /\ tunnel = FALSE
    /\ log = <<>>
    /\ controller = [heartbeat |-> {}, register |-> {}, unregister |-> {},
                    unregistered |-> <<>>]
    /\ NodeServing

\* the if / else-if / else chain choosing the handler
Route_any_method(request) ==
    IF request.method = "CONNECT" THEN "connect"
    ELSE IF UriPath(request.uri) = DelegatePath THEN "delegate"
    ELSE "plain"

Route(request) ==
    IF request.method = "CONNECT" THEN "connect"
    ELSE IF UriPath(request.uri) = DelegatePath /\ request.method = "POST"
    THEN "delegate"
    ELSE "plain"

\* snapshot of node_id and of the two dynamic fields, then the dispatch.
\* Three variants: the first authenticates against the node_id the node had
\* when the connection was opened (the id of the startup registration);
\* the second filters against the ports of the startup Config; the third
\* reads the two dynamic fields under two separate read locks.
Dispatch_node_id_of_connection ==
    /\ pc = "recv"
    /\ snap' = [node_id |-> ThisNode,
                allowed_ports |-> dynamic.allowed_ports,
                timestamp_tolerance |-> dynamic.timestamp_tolerance]
    /\ handler' = Route(req)
    /\ pc' = "auth"
    /\ UNCHANGED <<lifeVars, relay>>
    /\ UNCHANGED <<auth_in, auth_out, now, node_id, dynamic, req, target, resp,
                   dials, upstream_req, tunnel, log>>

Dispatch_startup_ports ==
    /\ pc = "recv"
    /\ snap' = [node_id |-> node_id,
                allowed_ports |-> config.allowed_ports,
                timestamp_tolerance |-> dynamic.timestamp_tolerance]
    /\ handler' = Route(req)
    /\ pc' = "auth"
    /\ UNCHANGED <<lifeVars, relay>>
    /\ UNCHANGED <<auth_in, auth_out, now, node_id, dynamic, req, target, resp,
                   dials, upstream_req, tunnel, log>>

Dispatch_two_locks ==
    /\ \/ /\ pc = "recv"
          /\ snap' = [snap EXCEPT !.node_id = node_id,
                                  !.allowed_ports = dynamic.allowed_ports]
          /\ pc' = "recv_tolerance"
          /\ UNCHANGED handler
       \/ /\ pc = "recv_tolerance"
          /\ snap' = [snap EXCEPT !.timestamp_tolerance = dynamic.timestamp_tolerance]
          /\ handler' = Route(req)
          /\ pc' = "auth"
    /\ UNCHANGED <<lifeVars, relay>>
    /\ UNCHANGED <<auth_in, auth_out, now, node_id, dynamic, req, target, resp,
                   dials, upstream_req, tunnel, log>>

Dispatch ==
    /\ pc = "recv"
    /\ snap' = [node_id |-> node_id,
                allowed_ports |-> dynamic.allowed_ports,
                timestamp_tolerance |-> dynamic.timestamp_tolerance]
    /\ handler' = Route(req)
    /\ pc' = "auth"
    /\ UNCHANGED <<lifeVars, relay>>
    /\ UNCHANGED <<auth_in, auth_out, now, node_id, dynamic, req, target, resp,
                   dials, upstream_req, tunnel, log>>

\* the arguments a handler passes to validate_proxy_auth
HandlerCall ==
    [presented |-> [header |-> ProxyAuthOf(req), made |-> None],
     node_id |-> snap.node_id,
     timestamp_tolerance |-> snap.timestamp_tolerance,
     clock |-> now]

HandlerAuthResult ==
    validate_proxy_auth(ProxyAuthOf(req), HmacKey, snap.node_id,
                        snap.timestamp_tolerance, now)

\* return of a response from the handler
Respond(r) == resp' = r /\ pc' = "done"

----------------------------------------------------------------------------
(* proxy/connect.rs: handle_connect                                        *)

ConnectAuth_no_return ==
    /\ pc = "auth" /\ handler = "connect"
    /\ auth_in' = HandlerCall
    /\ auth_out' = HandlerAuthResult
    /\ pc' = "target"
    /\ log' = IF HandlerAuthResult # "Ok"
              THEN Append(log, AuthFailedEvent("connect", HandlerAuthResult))
              ELSE log
    /\ UNCHANGED <<lifeVars, relay>>
    /\ UNCHANGED <<now, node_id, dynamic, req, handler, snap, target, resp, dials,
                   upstream_req, tunnel>>

\* header lookup and HMAC authentication
ConnectAuth ==
    /\ pc = "auth" /\ handler = "connect"
    /\ auth_in' = HandlerCall
    /\ auth_out' = HandlerAuthResult
    /\ IF HandlerAuthResult # "Ok"
       THEN /\ log' = Append(log, AuthFailedEvent("connect", HandlerAuthResult))
            /\ Respond(connect_proxy_auth_required(AuthErrorDisplay(HandlerAuthResult)))
       ELSE /\ pc' = "target"
            /\ UNCHANGED <<log, resp>>
    /\ UNCHANGED <<lifeVars, relay>>
    /\ UNCHANGED <<now, node_id, dynamic, req, handler, snap, target, dials,
                   upstream_req, tunnel>>

\* req.uri().authority(), host and port (default 443)
ConnectTarget ==
    /\ pc = "target" /\ handler = "connect"
    /\ IF ~IsSome(req.uri.authority)
       THEN /\ log' = Append(log, Event("WARN", "CONNECT request missing authority", ""))
            /\ Respond(connect_bad_request("missing target authority"))
            /\ UNCHANGED target
       ELSE /\ target' = [target EXCEPT
                            !.host = Unwrap(req.uri.authority).host,
                            !.port = UnwrapOr(Unwrap(req.uri.authority).port, 443)]
            /\ pc' = "filter"
            /\ UNCHANGED <<log, resp>>
    /\ UNCHANGED <<lifeVars, relay>>
    /\ UNCHANGED <<auth_in, auth_out, now, node_id, dynamic, req, handler, snap,
                   dials, upstream_req, tunnel>>

\* target_filter::validate_target; every Err is answered by forbidden()
ConnectFilter ==
    /\ pc = "filter" /\ handler = "connect"
    /\ \E dns \in DnsAnswers :
        LET r == validate_target(target.host, target.port, snap.allowed_ports, dns) IN
        /\ target' = [target EXCEPT !.addr = r.addr, !.err = r.err]
        /\ IF r.err # "none"
           THEN /\ log' = Append(log, Event("WARN", "CONNECT target rejected", r.err))
                /\ Respond(connect_forbidden(r.err))
           ELSE /\ log' = Append(log, Event("DEBUG", "CONNECT tunnel establishing", ""))
                /\ pc' = "dial"
                /\ UNCHANGED resp
    /\ UNCHANGED <<lifeVars, relay>>
    /\ UNCHANGED <<auth_in, auth_out, now, node_id, dynamic, req, handler, snap,
                   dials, upstream_req, tunnel>>

\* TcpStream::connect(target_addr); on success the tunnel task is spawned
\* and 200 is returned. The variant below spawns the task and answers 200
\* whatever the outcome of the connect (the dial moved into the task).
ConnectDial_answer_first ==
    /\ pc = "dial" /\ handler = "connect"
    /\ dials' = Append(dials, Unwrap(target.addr))
    /\ \E connected \in BOOLEAN :
        /\ log' = IF connected THEN log
                  ELSE Append(log, Event("WARN", "CONNECT target connection failed",
                                         "io error"))
        /\ tunnel' = TRUE
        /\ relay' = SpawnedRelay
        /\ Respond(Response(200, <<>>, "empty"))
    /\ UNCHANGED lifeVars
    /\ UNCHANGED <<auth_in, auth_out, now, node_id, dynamic, req, handler, snap,
                   target, upstream_req>>

ConnectDial ==
    /\ pc = "dial" /\ handler = "connect"
    /\ dials' = Append(dials, Unwrap(target.addr))
    /\ \E connected \in BOOLEAN :
        IF ~connected
        THEN /\ log' = Append(log, Event("WARN", "CONNECT target connection failed",
                                         "io error"))
             /\ Respond(connect_bad_gateway("io error"))
             /\ UNCHANGED <<tunnel, relay>>
        ELSE /\ tunnel' = TRUE
             /\ relay' = SpawnedRelay
             /\ Respond(Response(200, <<>>, "empty"))
             /\ UNCHANGED log
    /\ UNCHANGED lifeVars
    /\ UNCHANGED <<auth_in, auth_out, now, node_id, dynamic, req, handler, snap,
                   target, upstream_req>>

\* the tunnel task awaits hyper::upgrade::on(req): Ok starts
\* copy_bidirectional between the upgraded client stream and the target
\* stream, Err is logged and the task ends
TunnelUpgrade ==
    /\ relay.pc = "upgrade"
    /\ pc = "done"
    /\ \E upgraded \in BOOLEAN :
          IF upgraded
          THEN /\ relay' = [relay EXCEPT !.pc = "copy",
                                         !.client_to_target = "open",
                                         !.target_to_client = "open"]
               /\ UNCHANGED log
          ELSE /\ relay' = [relay EXCEPT !.pc = "ended",
                                         !.target_stream = "released",
                                         !.outcome = "upgrade_failed"]
               /\ log' = Append(log, Event("WARN", "CONNECT upgrade failed",
                                           "hyper error"))
    /\ UNCHANGED lifeVars
    /\ UNCHANGED <<auth_in, auth_out, now, node_id, dynamic, req, pc, handler,
                   snap, target, resp, dials, upstream_req, tunnel>>

\* the two directions of copy_bidirectional and the counter of each
Directions == {"client_to_target", "target_to_client"}
Opposite(dir) ==
    IF dir = "client_to_target" THEN "target_to_client" ELSE "client_to_target"
Counter(dir) == IF dir = "client_to_target" THEN "from_client" ELSE "from_target"

\* copy_bidirectional moves a chunk in one direction
TunnelCopy(dir) ==
    /\ relay.pc = "copy"
    /\ relay[dir] = "open"
    /\ relay[Counter(dir)] < MaxChunks
    /\ relay' = [relay EXCEPT ![Counter(dir)] = @ + 1]
    /\ UNCHANGED lifeVars
    /\ UNCHANGED <<auth_in, auth_out, now, node_id, dynamic, req, pc, handler,
                   snap, target, resp, dials, upstream_req, tunnel, log>>

\* the reader of one direction sees end-of-stream: the writer of the other
\* side is shut down and the direction is done; copy_bidirectional returns
\* Ok once both directions are done, the task logs the byte counts and
\* ends, dropping both streams. The variant below returns at the first
\* end-of-stream (a select over two copies).
TunnelEof_either(dir) ==
    /\ relay.pc = "copy"
    /\ relay[dir] = "open"
    /\ relay' = [relay EXCEPT ![dir] = "done",
                              !.pc = "ended",
                              !.target_stream = "released",
                              !.outcome = "closed"]
    /\ log' = Append(log, Event("DEBUG", "CONNECT tunnel closed", ""))
    /\ UNCHANGED lifeVars
    /\ UNCHANGED <<auth_in, auth_out, now, node_id, dynamic, req, pc, handler,
                   snap, target, resp, dials, upstream_req, tunnel>>

TunnelEof(dir) ==
    /\ relay.pc = "copy"
    /\ relay[dir] = "open"
    /\ IF relay[Opposite(dir)] = "done"
       THEN /\ relay' = [relay EXCEPT ![dir] = "done",
                                      !.pc = "ended",
                                      !.target_stream = "released",
                                      !.outcome = "closed"]
            /\ log' = Append(log, Event("DEBUG", "CONNECT tunnel closed", ""))
       ELSE /\ relay' = [relay EXCEPT ![dir] = "done"]
            /\ UNCHANGED log
    /\ UNCHANGED lifeVars
    /\ UNCHANGED <<auth_in, auth_out, now, node_id, dynamic, req, pc, handler,
                   snap, target, resp, dials, upstream_req, tunnel>>

\* a read, a write or the shutdown of one direction fails:
\* copy_bidirectional returns Err at once, the task logs it and ends
TunnelError(dir) ==
    /\ relay.pc = "copy"
    /\ relay[dir] = "open"
    /\ relay' = [relay EXCEPT ![dir] = "failed",
                              !.pc = "ended",
                              !.target_stream = "released",
                              !.outcome = "error"]
    /\ log' = Append(log, Event("DEBUG", "CONNECT tunnel error", "io error"))
    /\ UNCHANGED lifeVars
    /\ UNCHANGED <<auth_in, auth_out, now, node_id, dynamic, req, pc, handler,
                   snap, target, resp, dials, upstream_req, tunnel>>

----------------------------------------------------------------------------
(* proxy/plain.rs: handle_plain                                            *)

\* header lookup and HMAC authentication; the variant below looks for the
\* host of the URI first and answers 400 before it authenticates
PlainAuth_host_first ==
    /\ pc = "auth" /\ handler = "plain"
    /\ auth_in' = HandlerCall
    /\ auth_out' = HandlerAuthResult
    /\ IF ~IsSome(UriHost(req.uri))
       THEN /\ log' = Append(log, Event("WARN", "HTTP proxy request missing host", ""))
            /\ Respond(plain_bad_request("missing host in URI"))
       ELSE IF HandlerAuthResult # "Ok"
       THEN /\ log' = Append(log, AuthFailedEvent("plain", HandlerAuthResult))
            /\ Respond(plain_proxy_auth_required(AuthErrorDisplay(HandlerAuthResult)))
       ELSE /\ pc' = "target"
            /\ UNCHANGED <<log, resp>>
    /\ UNCHANGED <<lifeVars, relay>>
    /\ UNCHANGED <<now, node_id, dynamic, req, handler, snap, target, dials,
                   upstream_req, tunnel>>

PlainAuth ==
    /\ pc = "auth" /\ handler = "plain"
    /\ auth_in' = HandlerCall
    /\ auth_out' = HandlerAuthResult
    /\ IF HandlerAuthResult # "Ok"
       THEN /\ log' = Append(log, AuthFailedEvent("plain", HandlerAuthResult))
            /\ Respond(plain_proxy_auth_required(AuthErrorDisplay(HandlerAuthResult)))
       ELSE /\ pc' = "target"
            /\ UNCHANGED <<log, resp>>
    /\ UNCHANGED <<lifeVars, relay>>
    /\ UNCHANGED <<now, node_id, dynamic, req, handler, snap, target, dials,
                   upstream_req, tunnel>>

\* uri.host() and uri.port_u16() (default 80)
PlainTarget ==
    /\ pc = "target" /\ handler = "plain"
    /\ IF ~IsSome(UriHost(req.uri))
       THEN /\ log' = Append(log, Event("WARN", "HTTP proxy request missing host", ""))
            /\ Respond(plain_bad_request("missing host in URI"))
            /\ UNCHANGED target
       ELSE /\ target' = [target EXCEPT
                            !.host = Unwrap(UriHost(req.uri)),
                            !.port = UnwrapOr(UriPort(req.uri), 80)]
            /\ pc' = "filter"
            /\ UNCHANGED <<log, resp>>
    /\ UNCHANGED <<lifeVars, relay>>
    /\ UNCHANGED <<auth_in, auth_out, now, node_id, dynamic, req, handler, snap,
                   dials, upstream_req, tunnel>>

\* target_filter::validate_target; every Err is answered by forbidden()
PlainFilter ==
    /\ pc = "filter" /\ handler = "plain"
    /\ \E dns \in DnsAnswers :
        LET r == validate_target(target.host, target.port, snap.allowed_ports, dns) IN
        /\ target' = [target EXCEPT !.addr = r.addr, !.err = r.err]
        /\ IF r.err # "none"
           THEN /\ log' = Append(log, Event("WARN", "HTTP proxy target rejected", r.err))
                /\ Respond(plain_forbidden(r.err))
           ELSE /\ log' = Append(log, Event("INFO", "HTTP proxy forwarding", ""))
                /\ pc' = "body"
                /\ UNCHANGED resp
    /\ UNCHANGED <<lifeVars, relay>>
    /\ UNCHANGED <<auth_in, auth_out, now, node_id, dynamic, req, handler, snap,
                   dials, upstream_req, tunnel>>

\* req.into_body().collect()
PlainBody ==
    /\ pc = "body" /\ handler = "plain"
    /\ \E collected \in BOOLEAN :
        IF ~collected
        THEN /\ log' = Append(log, Event("WARN", "failed to read request body",
                                         "io error"))
             /\ Respond(plain_bad_gateway("failed to read request body"))
        ELSE /\ pc' = "dial"
             /\ UNCHANGED <<log, resp>>
    /\ UNCHANGED <<lifeVars, relay>>
    /\ UNCHANGED <<auth_in, auth_out, now, node_id, dynamic, req, handler, snap,
                   target, dials, upstream_req, tunnel>>

\* TcpStream::connect(target_addr)
PlainDial ==
    /\ pc = "dial" /\ handler = "plain"
    /\ dials' = Append(dials, Unwrap(target.addr))
    /\ \E connected \in BOOLEAN :
        IF ~connected
        THEN /\ log' = Append(log, Event("WARN", "HTTP proxy connection failed",
                                         "io error"))
             /\ Respond(plain_bad_gateway("connection failed: io error"))
        ELSE /\ pc' = "handshake"
             /\ UNCHANGED <<log, resp>>
    /\ UNCHANGED <<lifeVars, relay>>
    /\ UNCHANGED <<auth_in, auth_out, now, node_id, dynamic, req, handler, snap,
                   target, upstream_req, tunnel>>

\* hyper::client::conn::http1::handshake(io); on success the connection
\* driver task is spawned
PlainHandshake ==
    /\ pc = "handshake" /\ handler = "plain"
    /\ \E shaken \in BOOLEAN :
        IF ~shaken
        THEN /\ log' = Append(log, Event("WARN", "HTTP handshake failed", "hyper error"))
             /\ Respond(plain_bad_gateway("handshake failed: hyper error"))
        ELSE /\ pc' = "send"
             /\ UNCHANGED <<log, resp>>
    /\ UNCHANGED <<lifeVars, relay>>
    /\ UNCHANGED <<auth_in, auth_out, now, node_id, dynamic, req, handler, snap,
                   target, dials, upstream_req, tunnel>>

\* sender.send_request(outgoing): the upstream's response is passed on
\* with its status and headers and a streamed body, an error becomes 502
PlainSend ==
    /\ pc = "send" /\ handler = "plain"
    /\ upstream_req' = Some(OutgoingRequest(req))
    /\ \/ \E status \in UpstreamStatuses :
            /\ log' = Append(log, Event("INFO", "HTTP proxy response", ""))
            /\ Respond(Response(status, UpstreamHeaders, "upstream"))
       \/ /\ log' = Append(log, Event("WARN", "HTTP proxy request failed", "hyper error"))
          /\ Respond(plain_bad_gateway("upstream request failed: hyper error"))
    /\ UNCHANGED <<lifeVars, relay>>
    /\ UNCHANGED <<auth_in, auth_out, now, node_id, dynamic, req, handler, snap,
                   target, dials, tunnel>>

----------------------------------------------------------------------------
(* proxy/delegate.rs: handle_delegate (not part of the sources; outcomes   *)
(* as in the specification's section 4.G: the verifier runs first, then    *)
(* 400 bad JSON, 403 policy, 502 upstream or the upstream's status)        *)

HandleDelegate ==
    /\ pc = "auth" /\ handler = "delegate"
    /\ auth_in' = HandlerCall
    /\ auth_out' = HandlerAuthResult
    /\ IF HandlerAuthResult # "Ok"
       THEN Respond(Response(407, <<<<"Proxy-Authenticate", "HMAC-SHA256">>>>, "empty"))
       ELSE \E status \in {400, 403, 502} \cup UpstreamStatuses :
                Respond(Response(status, <<>>,
                                 IF status \in UpstreamStatuses /\ status # 403
                                 THEN "upstream" ELSE "empty"))
    /\ UNCHANGED <<lifeVars, relay>>
    /\ UNCHANGED <<now, node_id, dynamic, req, handler, snap, target, dials,
                   upstream_req, tunnel, log>>

----------------------------------------------------------------------------
(* Specification of one request served by the proxy                        *)

NextProxy ==
    \/ Dispatch
    \/ ConnectAuth
    \/ ConnectTarget
    \/ ConnectFilter
    \/ ConnectDial
    \/ PlainAuth
    \/ PlainTarget
    \/ PlainFilter
    \/ PlainBody
    \/ PlainDial
    \/ PlainHandshake
    \/ PlainSend
    \/ HandleDelegate

SpecProxy == InitProxy /\ [][NextProxy]_vars

----------------------------------------------------------------------------
(* Properties of the request handlers                                      *)

Done == pc = "done"

\* the request went to handle_connect or handle_plain
TunnelOrForward == handler \in {"connect", "plain"}

HasHeader(r, name, value) ==
    \E i \in 1..Len(r.headers) : r.headers[i] = <<name, value>>

\* C4 (auth failures answered 407): whichever of the seven AuthError kinds
\* the verifier returns, handle_connect and handle_plain answer 407 with
\* Proxy-Authenticate: HMAC-SHA256 and an empty body.
C4_AuthFailureIs407 ==
    (Done /\ TunnelOrForward /\ auth_out \in AuthErrors)
    => /\ resp.status = 407
       /\ HasHeader(resp, "Proxy-Authenticate", "HMAC-SHA256")
       /\ resp.body = "empty"

\* C4 witness: handle_connect has answered a credential whose signature
\* does not match.
C4_Witness ==
    /\ Done
    /\ handler = "connect"
    /\ auth_out = "SignatureMismatch"
    /\ resp.status = 407

\* the events of a log that a subscriber at level INFO receives
VisibleAtInfo(events) ==
    LET AtLeastInfo(e) == LevelRank(e.level) >= LevelRank("INFO")
    IN  SelectSeq(events, AtLeastInfo)

\* the other one of the two failure kinds
OtherFailureKind(e) ==
    IF e = "TimestampExpired" THEN "SignatureMismatch" ELSE "TimestampExpired"

\* C6 (failure kind not leaked at info level): what a handler logs at INFO
\* and above for a TimestampExpired failure equals what it logs for a
\* SignatureMismatch failure of the same request.
C6_FailureKindNotLogged ==
    (Done /\ TunnelOrForward /\ auth_out \in {"TimestampExpired", "SignatureMismatch"})
    => VisibleAtInfo(log)
       = VisibleAtInfo(<<AuthFailedEvent(handler, OtherFailureKind(auth_out))>>)

DialOnlyAfterAuthAndFilter ==
    /\ IsSome(target.addr) => auth_out = "Ok"
    /\ Len(dials) > 0
        => /\ auth_out = "Ok"
           /\ IsSome(target.addr)
           /\ \A i \in 1..Len(dials) : dials[i] = Unwrap(target.addr)

\* C8 as stated: no dial unless authentication succeeded and then the
\* filter accepted; a request answered 407, 400 or 403 caused no outbound
\* connection.
C8_NoDialWhenRejected ==
    TunnelOrForward
    => /\ DialOnlyAfterAuthAndFilter
       /\ (Done /\ resp.status \in {407, 400, 403}) => Len(dials) = 0

\* C8 amended: no dial unless authentication succeeded and then the filter
\* accepted; a request that the handler itself answers 407, 400 or 403 (not
\* an upstream response with such a status passed on by handle_plain)
\* caused no outbound connection.
C8_NoDialWhenRejectedByHandler ==
    TunnelOrForward
    => /\ DialOnlyAfterAuthAndFilter
       /\ (Done /\ resp.status \in {407, 400, 403} /\ resp.body # "upstream")
            => Len(dials) = 0

\* C8 witness: handle_plain answered 403 for a blocked address after a
\* successful authentication, without any dial.
C8_Witness ==
    /\ Done
    /\ handler = "plain"
    /\ auth_out = "Ok"
    /\ target.err = "BlockedAddress"
    /\ resp.status = 403
    /\ Len(dials) = 0

\* C9 (filter errors): ResolutionFailed is answered 502, PortNotAllowed and
\* BlockedAddress are answered 403, by both handlers.
C9_FilterErrorStatus ==
    (Done /\ TunnelOrForward)
    => /\ target.err = "ResolutionFailed" => resp.status = 502
       /\ target.err \in {"PortNotAllowed", "BlockedAddress"} => resp.status = 403

\* number of header lines of the request whose name is `name` in some
\* letter case
LinesNamed(name) ==
    Cardinality({i \in 1..Len(req.headers) :
                    ToAsciiLowercase(req.headers[i].name) = name})

\* C10 (header sanitation): the request handle_plain sends upstream has no
\* Proxy-Authorization and no Proxy-Connection header, in any letter case.
C10_HeaderSanitation ==
    IsSome(upstream_req)
    => \A i \in 1..Len(Unwrap(upstream_req).headers) :
          ToAsciiLowercase(Unwrap(upstream_req).headers[i].name)
            \notin {NameProxyAuthorization, NameProxyConnection}

\* C10 witness: a request carrying two Proxy-Authorization and two
\* Proxy-Connection lines in different letter cases has been sent upstream.
C10_Witness ==
    /\ IsSome(upstream_req)
    /\ LinesNamed(NameProxyAuthorization) >= 2
    /\ LinesNamed(NameProxyConnection) >= 2
    /\ \E i \in 1..Len(req.headers) :
          /\ req.headers[i].name # ToAsciiLowercase(req.headers[i].name)
          /\ ToAsciiLowercase(req.headers[i].name) = NameProxyConnection
    /\ Len(Unwrap(upstream_req).headers) >= 1


\* number of lines of hs with exactly this name and this value
LinesEqual(hs, name, value) ==
    Cardinality({i \in 1..Len(hs) : hs[i].name = name /\ hs[i].value = value})

\* C11 (other headers preserved byte-for-byte): every header line of the
\* client request other than Proxy-Authorization and Proxy-Connection is in
\* the request handle_plain sends upstream with the same name bytes (letter
\* case included), the same value and the same multiplicity.
C11_HeadersPreserved ==
    IsSome(upstream_req)
    => \A i \in 1..Len(req.headers) :
          ~IsProxyHeader(ToAsciiLowercase(req.headers[i].name))
          => LinesEqual(Unwrap(upstream_req).headers,
                        req.headers[i].name, req.headers[i].value)
               = LinesEqual(req.headers, req.headers[i].name, req.headers[i].value)


----------------------------------------------------------------------------
(* registration/client.rs: AetherClient::heartbeat                         *)

\* RemoteConfig values the controller pushes (the fields the proxy reads
\* per request): a port set without 8080, and a tolerance of one second
RemoteConfigs ==
    {[allowed_ports |-> Some({80, 443, 8443}), timestamp_tolerance |-> None],
     [allowed_ports |-> None, timestamp_tolerance |-> Some(1)]}

\* node objects of a heartbeat response body: remote_config and
\* config_version are both optional
HeartbeatNodeInfos ==
    [remote_config : {None} \cup {Some(rc) : rc \in RemoteConfigs},
     config_version : {None} \cup {Some(v) : v \in 0..MaxVersion}]

\* response bodies as resp.json::<HeartbeatResponseBody>() sees them: not
\* parseable, or an object whose node is absent or present
HeartbeatBodies ==
    {[parsed |-> FALSE, node |-> None]}
      \cup {[parsed |-> TRUE, node |-> n] :
              n \in {None} \cup {Some(i) : i \in HeartbeatNodeInfos}}

\* statuses the controller answers a heartbeat with
HeartbeatStatuses == {200, 204, 301, 400, 404, 500}

\* what send() yields: a transport error, or a response
TransportError == [kind |-> "error", status |-> 0, body |-> [parsed |-> FALSE, node |-> None]]
ControllerAnswers ==
    {TransportError}
      \cup [kind : {"response"}, status : HeartbeatStatuses, body : HeartbeatBodies]

\* what send() yields for the unregister request: a transport error, a
\* 2xx response or another response
UnregisterAnswers ==
    {[kind |-> "error", status |-> 0],
     [kind |-> "response", status |-> 200],
     [kind |-> "response", status |-> 500]}

\* The controller of a specification: the answers it may give to a
\* heartbeat, the results register may have (None: the call failed) and the
\* answers it may give to unregister; unregistered is the sequence of
\* unregister requests sent to it, each with the node_id of its body and
\* the result the client returned to its caller.
Controller(heartbeats, registers) ==
    [heartbeat |-> heartbeats, register |-> registers,
     unregister |-> UnregisterAnswers, unregistered |-> <<>>]

\* a controller that is never called
NoController == Controller({}, {})

\* a controller that answers every heartbeat 200 with an empty object and
\* registers the node, when it does, under the id "N"
QuietController ==
    Controller({[kind |-> "response", status |-> 200,
                 body |-> [parsed |-> TRUE, node |-> None]]},
               {None, Some(<<78>>)})

\* a controller that may give any answer and register the node under
\* either id
AnyController ==
    Controller(ControllerAnswers, {None} \cup {Some(id) : id \in NodeIds})

\* StatusCode::is_success
IsSuccess(status) == status >= 200 /\ status <= 299

\* Result<HeartbeatResult, HeartbeatError>
HeartbeatOk(remote_config, config_version) ==
    [kind |-> "Ok", remote_config |-> remote_config, config_version |-> config_version]
HeartbeatErr(kind) ==
    [kind |-> kind, remote_config |-> None, config_version |-> 0]

\* a node without config_version counts as version 0
VersionOf(node) == UnwrapOr(node.config_version, 0)

\* only 404 is the distinguished error
HeartbeatFailure_any_4xx(status) ==
    IF status >= 400 /\ status <= 499 THEN HeartbeatErr("NodeNotFound")
    ELSE HeartbeatErr("Other")

HeartbeatFailure(status) ==
    IF status = 404 THEN HeartbeatErr("NodeNotFound") ELSE HeartbeatErr("Other")

heartbeat(answer) ==
    IF answer.kind = "error" THEN HeartbeatErr("Other")
    ELSE IF ~IsSuccess(answer.status) THEN HeartbeatFailure(answer.status)
    ELSE IF ~answer.body.parsed THEN HeartbeatOk(None, 0)
    ELSE IF IsSome(answer.body.node)
         THEN HeartbeatOk(Unwrap(answer.body.node).remote_config,
                          VersionOf(Unwrap(answer.body.node)))
         ELSE HeartbeatOk(None, 0)

----------------------------------------------------------------------------
(* Heartbeat reconciler (registration/heartbeat.rs and runtime.rs are not  *)
(* part of the sources; the loop and the handling of outcomes are those of *)
(* the specification's section 4.J)                                        *)

\* the process has not exited: its runtime still polls the spawned tasks
RuntimeUp == app_pc \notin {"exit_ok", "exit_err"}

\* a success replaces the snapshot only when it carries a remote_config and
\* a config_version greater than the local one
ShouldApply_any_change(local, result) ==
    IsSome(result.remote_config) /\ result.config_version # local.config_version

ShouldApply(local, result) ==
    IsSome(result.remote_config) /\ result.config_version > local.config_version

\* the new snapshot: fields the remote_config names are replaced, all at
\* once, and the version is stored
ApplyRemoteConfig(local, result) ==
    IF ShouldApply(local, result)
    THEN LET rc == Unwrap(result.remote_config) IN
         [allowed_ports |-> UnwrapOr(rc.allowed_ports, local.allowed_ports),
          timestamp_tolerance |->
              UnwrapOr(rc.timestamp_tolerance, local.timestamp_tolerance),
          config_version |-> result.config_version]
    ELSE local

\* a tick of the interval: the heartbeat request is sent
HeartbeatSend ==
    /\ RuntimeUp
    /\ heartbeat_pc = "sleep"
    /\ heartbeat_pc' = "call"
    /\ UNCHANGED <<reqVars, node_id, dynamic, config, app_pc, tls_acceptor,
                   active_connections, shutdown, server_pc, conns, controller, hb, process>>

\* the call returns and its outcome is handled: a success may replace the
\* DynamicConfig, NodeNotFound registers again (and on success stores the
\* new node_id), any other error is left for the next tick
HeartbeatReceive ==
    /\ RuntimeUp
    /\ heartbeat_pc = "call"
    /\ \E answer \in controller.heartbeat :
          LET result == heartbeat(answer) IN
          /\ dynamic' = IF result.kind = "Ok"
                        THEN ApplyRemoteConfig(dynamic, result) ELSE dynamic
          /\ IF result.kind = "NodeNotFound"
             THEN \E registered \in controller.register :
                     /\ node_id' = UnwrapOr(registered, node_id)
                     /\ hb' = Beat(Some(answer), Some(result),
                                   IF IsSome(registered) THEN 0
                                   ELSE IF hb.reregister_failures < MaxRetries
                                   THEN hb.reregister_failures + 1
                                   ELSE MaxRetries)
             ELSE /\ node_id' = node_id
                  /\ hb' = Beat(Some(answer), Some(result),
                                IF result.kind = "Ok" THEN 0
                                ELSE hb.reregister_failures)
    /\ heartbeat_pc' = "sleep"
    /\ UNCHANGED <<reqVars, config, app_pc, tls_acceptor, active_connections,
                   shutdown, server_pc, conns, controller, process>>

\* the loop sees the shutdown signal and the task ends
HeartbeatExit ==
    /\ RuntimeUp
    /\ heartbeat_pc = "sleep"
    /\ shutdown
    /\ heartbeat_pc' = "exited"
    /\ UNCHANGED <<reqVars, node_id, dynamic, config, app_pc, tls_acceptor,
                   active_connections, shutdown, server_pc, conns, controller, hb, process>>

----------------------------------------------------------------------------
(* Specification of the heartbeat alone: a started node whose controller   *)
(* may give any answer                                                     *)

InitHeartbeat ==
    /\ auth_in = NoCall
    /\ auth_out = "pending"
    /\ now = MaxTime
    /\ node_id = ThisNode
    /\ dynamic = InitialDynamic
    /\ req = <<>>
    /\ pc = "idle"
    /\ handler = "none"
    /\ snap = NoSnapshot
    /\ target = NoTarget
    /\ resp = NoResponse
    /\ dials = <<>>
    /\ upstream_req = None
    /\ tunnel = FALSE
    /\ log = <<>>
    /\ controller = AnyController
    /\ NodeServing

NextHeartbeat ==
    \/ HeartbeatSend
    \/ HeartbeatReceive

SpecHeartbeat == InitHeartbeat /\ [][NextHeartbeat]_vars

----------------------------------------------------------------------------
(* Properties of the heartbeat                                             *)

\* the last heartbeat call has returned
BeatDone == IsSome(hb.answer) /\ IsSome(hb.result)

\* the controller answered the last call with a response of a 2xx status
AnsweredSuccess ==
    /\ Unwrap(hb.answer).kind = "response"
    /\ Unwrap(hb.answer).status \in 200..299

\* C19 (heartbeat outcomes): heartbeat returns NodeNotFound exactly when the
\* controller answers 404; a transport error and every other non-2xx status
\* give Other; every 2xx status gives Ok, and with an unparseable body the
\* result has no remote_config and config_version 0.
C19_HeartbeatOutcome ==
    BeatDone
    => LET a == Unwrap(hb.answer)
           r == Unwrap(hb.result)
       IN  /\ r.kind = "NodeNotFound" <=> (a.kind = "response" /\ a.status = 404)
           /\ (a.kind = "error" \/ (~AnsweredSuccess /\ a.status # 404))
                => r.kind = "Other"
           /\ AnsweredSuccess => r.kind = "Ok"
           /\ (AnsweredSuccess /\ ~a.body.parsed)
                => r = HeartbeatOk(None, 0)

\* C19 witness: a 204 answer whose body cannot be parsed came back as a
\* success.
C19_Witness ==
    /\ BeatDone
    /\ Unwrap(hb.answer).kind = "response"
    /\ Unwrap(hb.answer).status = 204
    /\ ~Unwrap(hb.answer).body.parsed
    /\ Unwrap(hb.result).kind = "Ok"

\* C20 (config monotonicity): no step lowers the config_version of the
\* DynamicConfig, and a heartbeat outcome that is an error or a success
\* whose version is not greater than the local one leaves the DynamicConfig
\* as it was.
C20_ConfigMonotonic ==
    [][/\ dynamic'.config_version >= dynamic.config_version
       /\ (heartbeat_pc = "call" /\ heartbeat_pc' = "sleep")
            => LET r == Unwrap(hb'.result) IN
               (r.kind # "Ok" \/ r.config_version <= dynamic.config_version)
                 => dynamic' = dynamic]_vars

\* C20 witness: the local version is the highest one and the last answer
\* handled was a success carrying a remote_config with a lower version.
C20_Witness ==
    /\ BeatDone
    /\ heartbeat_pc = "sleep"
    /\ dynamic.config_version = MaxVersion
    /\ Unwrap(hb.result).kind = "Ok"
    /\ IsSome(Unwrap(hb.result).remote_config)
    /\ Unwrap(hb.result).config_version < dynamic.config_version

----------------------------------------------------------------------------
(* app.rs: run, the main task                                              *)

\* positions at which run has returned an error, by the step that failed
FailedStartup == {"failed_public_ip", "failed_tls", "failed_register"}

\* what the main task leaves alone in every step
AppFrame == UNCHANGED <<reqVars, server_pc, conns, controller, hb, process>>

\* config.public_ip when it is configured, else net::detect_public_ip()?
AppPublicIp ==
    /\ app_pc = "public_ip"
    /\ \E configured \in BOOLEAN, detected \in BOOLEAN :
          app_pc' = IF configured \/ detected THEN "region"
                    ELSE "failed_public_ip"
    /\ AppFrame
    /\ UNCHANGED <<node_id, dynamic, config, tls_acceptor, active_connections,
                   shutdown, heartbeat_pc>>

\* net::detect_region when no region is configured; None changes nothing
AppRegion ==
    /\ app_pc = "region"
    /\ IF config.node_region
       THEN config' = config
       ELSE \E detected \in BOOLEAN :
               config' = [config EXCEPT !.node_region = detected]
    /\ app_pc' = "tls"
    /\ AppFrame
    /\ UNCHANGED <<node_id, dynamic, tls_acceptor, active_connections, shutdown,
                   heartbeat_pc>>

\* ensure_self_signed_cert?, build_tls_acceptor?, cert_sha256_fingerprint?
\* when TLS is enabled
AppTls ==
    /\ app_pc = "tls"
    /\ IF config.enable_tls
       THEN \E ok \in BOOLEAN :
               /\ tls_acceptor' = IF ok THEN Some("acceptor") ELSE None
               /\ app_pc' = IF ok THEN "register" ELSE "failed_tls"
       ELSE /\ tls_acceptor' = None
            /\ app_pc' = "register"
    /\ AppFrame
    /\ UNCHANGED <<node_id, dynamic, config, active_connections, shutdown,
                   heartbeat_pc>>

\* hardware::collect(), then aether_client.register(..).await?, which
\* returns the stable node_id the controller keeps for this ip:port; the
\* variant below goes on with an empty node_id when register fails
AppRegister_continue ==
    /\ app_pc = "register"
    /\ \E registered \in controller.register :
          /\ node_id' = UnwrapOr(registered, <<>>)
          /\ app_pc' = "state"
    /\ AppFrame
    /\ UNCHANGED <<dynamic, config, tls_acceptor, active_connections, shutdown,
                   heartbeat_pc>>

AppRegister ==
    /\ app_pc = "register"
    /\ \E registered \in controller.register :
          IF IsSome(registered)
          THEN node_id' = Unwrap(registered) /\ app_pc' = "state"
          ELSE node_id' = node_id /\ app_pc' = "failed_register"
    /\ AppFrame
    /\ UNCHANGED <<dynamic, config, tls_acceptor, active_connections, shutdown,
                   heartbeat_pc>>

\* DynamicConfig::from_config, the delegate client, AppState with
\* active_connections 0, and the watch channel holding false
AppBuildState ==
    /\ app_pc = "state"
    /\ dynamic' = from_config(config)
    /\ active_connections' = 0
    /\ shutdown' = FALSE
    /\ app_pc' = "spawn_heartbeat"
    /\ AppFrame
    /\ UNCHANGED <<node_id, config, tls_acceptor, heartbeat_pc>>

\* tokio::spawn of registration::heartbeat::run
AppSpawnHeartbeat ==
    /\ app_pc = "spawn_heartbeat"
    /\ heartbeat_pc' = "sleep"
    /\ app_pc' = "spawn_server"
    /\ AppFrame
    /\ UNCHANGED <<node_id, dynamic, config, tls_acceptor, active_connections,
                   shutdown>>

\* tokio::spawn of proxy::server::run
AppSpawnServer ==
    /\ app_pc = "spawn_server"
    /\ server_pc' = "bind"
    /\ app_pc' = "wait"
    /\ UNCHANGED <<reqVars, conns, controller, hb, process>>
    /\ UNCHANGED <<node_id, dynamic, config, tls_acceptor, active_connections,
                   shutdown, heartbeat_pc>>

\* wait_for_shutdown() returns: SIGINT or SIGTERM arrived
AppSignal ==
    /\ app_pc = "wait"
    /\ \E sig \in {"SIGINT", "SIGTERM"} : process' = [process EXCEPT !.signal = sig]
    /\ app_pc' = "send_shutdown"
    /\ UNCHANGED <<reqVars, server_pc, conns, controller, hb>>
    /\ UNCHANGED <<node_id, dynamic, config, tls_acceptor, active_connections,
                   shutdown, heartbeat_pc>>

\* shutdown_tx.send(true)
AppSendShutdown ==
    /\ app_pc = "send_shutdown"
    /\ shutdown' = TRUE
    /\ app_pc' = "unregister"
    /\ AppFrame
    /\ UNCHANGED <<node_id, dynamic, config, tls_acceptor, active_connections,
                   heartbeat_pc>>

\* AetherClient::unregister: Ok for a 2xx response, Err for any other
\* response and for a transport error
unregister(answer) ==
    IF answer.kind = "response" /\ answer.status >= 200 /\ answer.status <= 299
    THEN "Ok" ELSE "Err"

\* the request as the controller sees it and the result the caller gets
UnregisterCall(id, answer) == [node_id |-> id, result |-> unregister(answer)]

\* the unregister request carries the node_id captured when the node
\* registered at startup
AppUnregister_startup_id ==
    /\ app_pc = "unregister"
    /\ \E answer \in controller.unregister :
          controller' = [controller EXCEPT
                           !.unregistered = Append(@, UnregisterCall(ThisNode, answer))]
    /\ app_pc' = "join"
    /\ UNCHANGED <<reqVars, server_pc, conns, hb, process>>
    /\ UNCHANGED <<node_id, dynamic, config, tls_acceptor, active_connections,
                   shutdown, heartbeat_pc>>

\* a failed unregister ends run with the error
AppUnregister_propagates ==
    /\ app_pc = "unregister"
    /\ \E answer \in controller.unregister :
          /\ controller' = [controller EXCEPT
                              !.unregistered = Append(@, UnregisterCall(node_id, answer))]
          /\ app_pc' = IF unregister(answer) = "Ok" THEN "join" ELSE "failed_register"
    /\ UNCHANGED <<reqVars, server_pc, conns, hb, process>>
    /\ UNCHANGED <<node_id, dynamic, config, tls_acceptor, active_connections,
                   shutdown, heartbeat_pc>>

\* best-effort unregister: the node_id is read under the lock and sent in
\* the body; an error is logged and ignored
AppUnregister ==
    /\ app_pc = "unregister"
    /\ \E answer \in controller.unregister :
          controller' = [controller EXCEPT
                           !.unregistered = Append(@, UnregisterCall(node_id, answer))]
    /\ app_pc' = "join"
    /\ UNCHANGED <<reqVars, server_pc, conns, hb, process>>
    /\ UNCHANGED <<node_id, dynamic, config, tls_acceptor, active_connections,
                   shutdown, heartbeat_pc>>

\* tokio::join!(heartbeat_handle, server_handle), then Ok(())
AppJoin ==
    /\ app_pc = "join"
    /\ heartbeat_pc = "exited"
    /\ server_pc \in {"exited", "failed"}
    /\ app_pc' = "stopped"
    /\ AppFrame
    /\ UNCHANGED <<node_id, dynamic, config, tls_acceptor, active_connections,
                   shutdown, heartbeat_pc>>

\* main returns what run returned: the runtime is dropped and with it
\* every task that is still pending, at the point where it waits
ProcessExit ==
    /\ app_pc \in {"stopped"} \cup FailedStartup
    /\ app_pc' = IF app_pc = "stopped" THEN "exit_ok" ELSE "exit_err"
    /\ conns' = [c \in ConnIds |->
                   [conns[c] EXCEPT
                      !.pc = IF @ \in {"spawned", "handshake", "serving"}
                             THEN "cancelled" ELSE @,
                      !.tunnel = IF @ = "relaying" THEN "cancelled" ELSE @]]
    /\ heartbeat_pc' = IF heartbeat_pc \in {"sleep", "call"} THEN "cancelled"
                       ELSE heartbeat_pc
    /\ server_pc' = IF server_pc \in {"bind", "loop"} THEN "cancelled" ELSE server_pc
    /\ UNCHANGED <<reqVars, node_id, dynamic, config, tls_acceptor,
                   active_connections, shutdown, controller, hb, process>>

----------------------------------------------------------------------------
(* proxy/server.rs: run, the accept loop, and the task of each connection  *)

\* AtomicU64::fetch_add(1) and fetch_sub(1).  The counter is kept as its
\* residue modulo 2^64 in the signed range, so that a value below zero
\* stands for a wrapped counter (-1 for u64::MAX).
FetchAdd(counter) == counter + 1
FetchSub_none(counter) == counter
FetchSub(counter) == counter - 1

\* the next connection attempt accept() will return
NextPending(c) ==
    /\ conns[c].pc = "pending"
    /\ \A d \in ConnIds : d < c => conns[d].pc # "pending"

\* what the server task leaves alone in every step
ServerFrame ==
    UNCHANGED <<reqVars, node_id, dynamic, config, app_pc, tls_acceptor,
                shutdown, heartbeat_pc, controller, hb, process>>

\* TcpListener::bind(addr).await?: on an error run returns it, the spawned
\* closure logs "proxy server error" and the task ends
ServerBind ==
    /\ RuntimeUp
    /\ server_pc = "bind"
    /\ \E bound \in BOOLEAN : server_pc' = IF bound THEN "loop" ELSE "failed"
    /\ ServerFrame
    /\ UNCHANGED <<active_connections, conns>>

\* accept() returns a connection: the counter is incremented and the
\* connection task spawned
ServerAccept(c) ==
    /\ RuntimeUp
    /\ server_pc = "loop"
    /\ NextPending(c)
    /\ active_connections' = FetchAdd(active_connections)
    /\ conns' = [conns EXCEPT ![c].pc = "spawned"]
    /\ ServerFrame
    /\ UNCHANGED server_pc

\* accept() returns an error: it is logged and the loop continues; the
\* variant below leaves the loop
ServerAcceptError_break(c) ==
    /\ RuntimeUp
    /\ server_pc = "loop"
    /\ NextPending(c)
    /\ conns' = [conns EXCEPT ![c].pc = "refused"]
    /\ server_pc' = "exited"
    /\ ServerFrame
    /\ UNCHANGED active_connections

ServerAcceptError(c) ==
    /\ RuntimeUp
    /\ server_pc = "loop"
    /\ NextPending(c)
    /\ conns' = [conns EXCEPT ![c].pc = "refused"]
    /\ ServerFrame
    /\ UNCHANGED <<active_connections, server_pc>>

\* the shutdown branch of select!: break, then Ok(())
ServerShutdown ==
    /\ RuntimeUp
    /\ server_pc = "loop"
    /\ shutdown
    /\ server_pc' = "exited"
    /\ ServerFrame
    /\ UNCHANGED <<active_connections, conns>>

\* what a connection task leaves alone in every step
ConnFrame ==
    UNCHANGED <<reqVars, node_id, dynamic, config, app_pc, tls_acceptor,
                shutdown, server_pc, heartbeat_pc, controller, hb, process>>

\* tls::is_tls_client_hello (proxy/tls.rs is not part of the sources; as
\* in the specification's section 4.D): the peeked first byte is 0x16
is_tls_client_hello(first_byte) == first_byte = 22

\* the dual-stack peek: with an acceptor and a ClientHello first byte the
\* task goes to the TLS handshake, otherwise it serves the raw stream.  The
\* peek is made only when there is an acceptor.
ConnPeek(c) ==
    /\ RuntimeUp
    /\ conns[c].pc = "spawned"
    /\ \E first_byte \in FirstBytes :
          conns' = [conns EXCEPT
                      ![c] = IF IsSome(tls_acceptor) /\ is_tls_client_hello(first_byte)
                             THEN Conn("handshake", Some(first_byte), "tls", "none", "none")
                             ELSE Conn("serving", Some(first_byte), "plain", "none", "none")]
    /\ ConnFrame
    /\ UNCHANGED active_connections

\* acceptor.accept(stream): Ok serves the TLS stream; Err is logged, the
\* counter decremented and the task returns. The variant below serves the
\* stream as plain HTTP when the handshake fails (the TLS branch without
\* its return).
ConnTlsHandshake_fallback(c) ==
    /\ RuntimeUp
    /\ conns[c].pc = "handshake"
    /\ \E ok \in BOOLEAN :
          IF ok
          THEN conns' = [conns EXCEPT ![c].pc = "serving"]
          ELSE conns' = [conns EXCEPT ![c].pc = "serving", ![c].transport = "plain"]
    /\ UNCHANGED active_connections
    /\ ConnFrame

ConnTlsHandshake(c) ==
    /\ RuntimeUp
    /\ conns[c].pc = "handshake"
    /\ \E ok \in BOOLEAN :
          IF ok
          THEN /\ conns' = [conns EXCEPT ![c].pc = "serving"]
               /\ UNCHANGED active_connections
          ELSE /\ conns' = [conns EXCEPT ![c].pc = "exited", ![c].ending = "tls_failed"]
               /\ active_connections' = FetchSub(active_connections)
    /\ ConnFrame

\* the counter update that follows serve_connection on either transport;
\* the variant below decrements a second time on the TLS path (the TLS
\* branch without its return)
AfterServe_fall_through(counter, transport) ==
    IF transport = "tls" THEN FetchSub(FetchSub(counter)) ELSE FetchSub(counter)

AfterServe(counter, transport) == FetchSub(counter)

\* serve_connection returns because the client closed the connection or the
\* connection failed; the counter is decremented and the task ends
ConnServeEnd(c) ==
    /\ RuntimeUp
    /\ conns[c].pc = "serving"
    /\ \E ending \in {"closed", "error"} :
          conns' = [conns EXCEPT ![c].pc = "exited", ![c].ending = ending]
    /\ active_connections' = AfterServe(active_connections, conns[c].transport)
    /\ ConnFrame

\* a CONNECT request is answered 200: handle_connect has spawned the tunnel
\* task, the HTTP connection hands its I/O over to it (with_upgrades) and
\* serve_connection returns; the counter is decremented and the connection
\* task ends while the tunnel task relays
ConnUpgrade(c) ==
    /\ RuntimeUp
    /\ conns[c].pc = "serving"
    /\ conns' = [conns EXCEPT ![c].pc = "exited", ![c].ending = "upgraded",
                              ![c].tunnel = "relaying"]
    /\ active_connections' = AfterServe(active_connections, conns[c].transport)
    /\ ConnFrame

\* copy_bidirectional returns: either side closed, or an error
TunnelEnd(c) ==
    /\ RuntimeUp
    /\ conns[c].tunnel = "relaying"
    /\ conns' = [conns EXCEPT ![c].tunnel = "closed"]
    /\ ConnFrame
    /\ UNCHANGED active_connections

----------------------------------------------------------------------------
(* main.rs: main from the config file to app::run                          *)

\* the Config record before Config::try_parse has produced one
NoConfig == StartConfig(FALSE, FALSE, {})

\* the elements of a Vec as a set
Elements(seq) == {seq[i] : i \in 1..Len(seq)}

\* the fields of the parsed Config the lifecycle steps read
ConfigOf(parsed) ==
    StartConfig(IsSome(parsed["node_region"]),
                Unwrap(parsed["enable_tls"]),
                Elements(Unwrap(parsed["allowed_ports"])))

MainFrame ==
    UNCHANGED <<reqVars, node_id, dynamic, tls_acceptor, active_connections,
                shutdown, server_pc, heartbeat_pc, conns, controller, hb>>

\* the config file, when it exists and loads, is injected into the
\* environment
MainLoadConfig ==
    /\ app_pc = "main_load"
    /\ process' = [process EXCEPT
                     !.env = IF IsSome(process.file)
                             THEN inject_env(Unwrap(process.file), process.env)
                             ELSE process.env]
    /\ app_pc' = "main_parse"
    /\ MainFrame
    /\ UNCHANGED config

\* Config::try_parse: a missing required argument launches the setup
\* wizard, any other error exits through clap (code 2)
MainParse ==
    /\ app_pc = "main_parse"
    /\ LET r == try_parse(process.cli, process.env) IN
          /\ process' = [process EXCEPT !.parsed = Some(r)]
          /\ app_pc' = CASE r.kind = "ok" -> "main_service"
                         [] r.kind = "missing" -> "setup"
                         [] r.kind = "invalid" -> "exit_usage"
    /\ MainFrame
    /\ UNCHANGED config

\* setup::run(path) and the return of its result from main
MainSetup ==
    /\ app_pc = "setup"
    /\ \E ok \in BOOLEAN : app_pc' = IF ok THEN "exit_ok" ELSE "exit_err"
    /\ MainFrame
    /\ UNCHANGED <<config, process>>

\* setup::service::is_service_active(): exit(1) when the service runs,
\* else app::run(config)
MainServiceCheck ==
    /\ app_pc = "main_service"
    /\ \E active \in BOOLEAN :
          IF active
          THEN app_pc' = "exit_err" /\ config' = config
          ELSE app_pc' = "public_ip"
               /\ config' = ConfigOf(Unwrap(process.parsed).config)
    /\ MainFrame
    /\ UNCHANGED process

----------------------------------------------------------------------------
(* Specification of the configuration alone: one field given on the       *)
(* command line, in the environment and in the file, in every combination *)

\* "x": the value of the required fields that are not under test
TextX == <<120>>

\* texts given for a field on the command line or in the environment:
\* strings "c" and "e"; numbers "1" and "2"; booleans; ports "443" and
\* "0,443"
TextPool(kind) ==
    CASE kind = "string" -> {<<99>>, <<101>>}
      [] kind \in {"u16", "u64"} -> {<<49>>, <<50>>}
      [] kind = "bool" -> {TextTrue, TextFalse}
      [] kind = "ports" -> {<<52, 52, 51>>, <<48, 44, 52, 52, 51>>}

\* a bool field is a flag: given on the command line it reads "true"
CliTexts(kind) == IF kind = "bool" THEN {TextTrue} ELSE TextPool(kind)

\* an environment value that is not valid Unicode (the byte 0xFF)
NotUnicode == <<255>>

\* values a config file gives a field
FilePool(kind) ==
    CASE kind = "string" -> {<<102>>}
      [] kind \in {"u16", "u64"} -> {3}
      [] kind = "bool" -> {TRUE, FALSE}
      [] kind = "ports" -> {<<8080>>, <<0, 8080>>}

\* a process in which field f has the command-line text cli_text, the
\* environment text env_text and the file value file_val (each optional);
\* has_file tells whether a config file exists; the other required
\* fields are given on the command line
ProcessWith(f, cli_text, env_text, has_file, file_val) ==
    LET env0 == [n \in EnvNames |-> IF n = ConfigEnvName[f] THEN env_text ELSE None]
    IN  Process(env0, env0,
                IF has_file
                THEN Some([g \in ConfigFields |-> IF g = f THEN file_val ELSE None])
                ELSE None,
                [g \in ConfigFields |->
                    IF g = f THEN cli_text
                    ELSE IF g \in RequiredFields THEN Some(TextX) ELSE None],
                None, "none")

\* main has been entered: nothing is parsed, registered, built or spawned
MainNotStarted ==
    /\ auth_in = NoCall
    /\ auth_out = "pending"
    /\ ProxyIdle
    /\ config = NoConfig
    /\ app_pc = "main_load"
    /\ tls_acceptor = None
    /\ active_connections = 0
    /\ shutdown = FALSE
    /\ server_pc = "none"
    /\ heartbeat_pc = "none"
    /\ conns = [c \in ConnIds |-> NoConn]
    /\ hb = NoBeat
    /\ relay = NoRelay

InitConfig ==
    /\ MainNotStarted
    /\ controller = NoController
    /\ \E f \in ConfigFields :
         \E cli_text \in {None} \cup {Some(t) : t \in CliTexts(FieldKind(f))},
            env_text \in {None, Some(NotUnicode)}
                           \cup {Some(t) : t \in TextPool(FieldKind(f))},
            file_val \in {None} \cup {Some(v) : v \in FilePool(FieldKind(f))} :
              \E has_file \in BOOLEAN :
                  /\ ~has_file => file_val = None
                  /\ process = ProcessWith(f, cli_text, env_text, has_file, file_val)

NextConfig ==
    \/ MainLoadConfig
    \/ MainParse
    \/ MainSetup
    \/ MainServiceCheck

SpecConfig == InitConfig /\ [][NextConfig]_vars

----------------------------------------------------------------------------
(* Specification of the startup: main, app::run up to the spawned tasks,  *)
(* the server accepting connections and the heartbeat                     *)

\* the controller of this specification: register fails or returns "N" or
\* the empty string; a heartbeat is answered 200 with an empty object, 200
\* with version 1 of a remote_config whose allowed_ports are [0, 443], or
\* 404
StartupController ==
    Controller({[kind |-> "response", status |-> 200,
                 body |-> [parsed |-> TRUE, node |-> None]],
                [kind |-> "response", status |-> 200,
                 body |-> [parsed |-> TRUE,
                           node |-> Some([remote_config |->
                                            Some([allowed_ports |-> Some({0, 443}),
                                                  timestamp_tolerance |-> None]),
                                          config_version |-> Some(1)])]],
                [kind |-> "response", status |-> 404,
                 body |-> [parsed |-> FALSE, node |-> None]]},
               {None, Some(ThisNode), Some(<<>>)})

\* the command line gives the required fields and --allowed-ports 443,
\* --allowed-ports 0,443 or no --allowed-ports
InitStartup ==
    /\ MainNotStarted
    /\ controller = StartupController
    /\ \E cli_text \in {None} \cup {Some(t) : t \in CliTexts("ports")} :
          process = ProcessWith("allowed_ports", cli_text, None, FALSE, None)

NextStartup ==
    \/ MainLoadConfig
    \/ MainParse
    \/ MainServiceCheck
    \/ AppPublicIp
    \/ AppRegion
    \/ AppTls
    \/ AppRegister
    \/ AppBuildState
    \/ AppSpawnHeartbeat
    \/ AppSpawnServer
    \/ ProcessExit
    \/ HeartbeatSend
    \/ HeartbeatReceive
    \/ ServerBind
    \/ \E c \in ConnIds : ServerAccept(c)
    \/ \E c \in ConnIds : ConnPeek(c)
    \/ \E c \in ConnIds : ConnTlsHandshake(c)
    \/ \E c \in ConnIds : ConnServeEnd(c)

SpecStartup == InitStartup /\ [][NextStartup]_vars

----------------------------------------------------------------------------
(* Specification of the node from startup to process exit                  *)

InitApp ==
    /\ auth_in = NoCall
    /\ auth_out = "pending"
    /\ ProxyIdle
    /\ config \in [node_region : BOOLEAN, enable_tls : BOOLEAN,
                   allowed_ports : {DefaultPorts}]
    /\ controller = QuietController
    /\ NodeNotStarted

NextApp ==
    \/ AppPublicIp
    \/ AppRegion
    \/ AppTls
    \/ AppRegister
    \/ AppBuildState
    \/ AppSpawnHeartbeat
    \/ AppSpawnServer
    \/ AppSignal
    \/ AppSendShutdown
    \/ AppUnregister
    \/ AppJoin
    \/ ProcessExit
    \/ HeartbeatSend
    \/ HeartbeatReceive
    \/ HeartbeatExit
    \/ ServerBind
    \/ \E c \in ConnIds : ServerAccept(c)
    \/ \E c \in ConnIds : ServerAcceptError(c)
    \/ ServerShutdown
    \/ \E c \in ConnIds : ConnPeek(c)
    \/ \E c \in ConnIds : ConnTlsHandshake(c)
    \/ \E c \in ConnIds : ConnServeEnd(c)
    \/ \E c \in ConnIds : ConnUpgrade(c)
    \/ \E c \in ConnIds : TunnelEnd(c)

SpecApp == InitApp /\ [][NextApp]_vars

\* the same with the scheduler's fairness: a task of the program that can
\* take its step takes it, and select! does not starve a ready branch.
\* Signals, clients and the peers of a tunnel are not obliged to act.
AppFairness ==
    /\ WF_vars(AppPublicIp)
    /\ WF_vars(AppRegion)
    /\ WF_vars(AppTls)
    /\ WF_vars(AppRegister)
    /\ WF_vars(AppBuildState)
    /\ WF_vars(AppSpawnHeartbeat)
    /\ WF_vars(AppSpawnServer)
    /\ WF_vars(AppSendShutdown)
    /\ WF_vars(AppUnregister)
    /\ WF_vars(AppJoin)
    /\ WF_vars(ProcessExit)
    /\ WF_vars(HeartbeatSend)
    /\ WF_vars(HeartbeatReceive)
    /\ WF_vars(HeartbeatExit)
    /\ WF_vars(ServerBind)
    /\ WF_vars(ServerShutdown)

SpecAppFair == SpecApp /\ AppFairness

\* the accept loop and the connection tasks alone, from the moment both
\* tasks have been spawned until the shutdown signal has been broadcast
InitServer ==
    /\ auth_in = NoCall
    /\ auth_out = "pending"
    /\ now = MaxTime
    /\ node_id = ThisNode
    /\ dynamic = InitialDynamic
    /\ req = <<>>
    /\ pc = "idle"
    /\ handler = "none"
    /\ snap = NoSnapshot
    /\ target = NoTarget
    /\ resp = NoResponse
    /\ dials = <<>>
    /\ upstream_req = None
    /\ tunnel = FALSE
    /\ log = <<>>
    /\ config \in [node_region : {TRUE}, enable_tls : BOOLEAN,
                   allowed_ports : {DefaultPorts}]
    /\ tls_acceptor = IF config.enable_tls THEN Some("acceptor") ELSE None
    /\ app_pc = "wait"
    /\ active_connections = 0
    /\ shutdown = FALSE
    /\ server_pc = "bind"
    /\ heartbeat_pc = "sleep"
    /\ conns = [c \in ConnIds |-> NoConn]
    /\ controller = QuietController
    /\ hb = NoBeat
    /\ process = QuietProcess
    /\ relay = NoRelay

NextServer ==
    \/ AppSignal
    \/ AppSendShutdown
    \/ ServerBind
    \/ \E c \in ConnIds : ServerAccept(c)
    \/ \E c \in ConnIds : ServerAcceptError(c)
    \/ ServerShutdown
    \/ \E c \in ConnIds : ConnPeek(c)
    \/ \E c \in ConnIds : ConnTlsHandshake(c)
    \/ \E c \in ConnIds : ConnServeEnd(c)
    \/ \E c \in ConnIds : ConnUpgrade(c)
    \/ \E c \in ConnIds : TunnelEnd(c)

SpecServerFair ==
    /\ InitServer
    /\ [][NextServer]_vars
    /\ WF_vars(AppSendShutdown)
    /\ WF_vars(ServerBind)
    /\ WF_vars(ServerShutdown)

----------------------------------------------------------------------------
(* Properties of the lifecycle, the accept loop and the connection tasks   *)

\* accepted connections whose task has not run to its end
InFlight == {c \in ConnIds : conns[c].pc \in {"spawned", "handshake", "serving", "cancelled"}}

\* accepted connections
Accepted == {c \in ConnIds : conns[c].pc \notin {"pending", "refused"}}

\* the process has exited
Exited == app_pc \in {"exit_ok", "exit_err"}

C13_CounterNonNegative ==
    active_connections >= 0

\* C13 witness: every connection attempt was accepted, one served over TLS
\* and one over plaintext, all tasks have ended and the counter is 0.
C13_Witness ==
    /\ active_connections = 0
    /\ \A c \in ConnIds : conns[c].pc = "exited"
    /\ \E c \in ConnIds : conns[c].transport = "tls" /\ conns[c].ending = "closed"
    /\ \E c \in ConnIds : conns[c].transport = "plain"

\* C14 (counter includes tunnel time): while the CONNECT tunnel of a
\* connection is relaying, the connection is still counted in
\* active_connections.
C14_TunnelCounted ==
    \A c \in ConnIds : conns[c].tunnel = "relaying" => c \in InFlight

\* C15 (shutdown ends the accept loop): once the shutdown signal is
\* broadcast the accept loop eventually has exited; after it has exited no
\* connection is accepted; and the loop is left only on the shutdown
\* signal, never on an accept error.
C15_ShutdownEndsAcceptLoop ==
    /\ shutdown ~> server_pc \in {"exited", "failed"}
    /\ [][/\ server_pc # "loop"
             => \A c \in ConnIds : conns[c].pc = "pending" => conns'[c].pc = "pending"
          /\ (server_pc = "loop" /\ server_pc' # "loop") => shutdown]_vars

\* C15 witness: the first accept failed, the loop went on to accept the
\* next connection, and it exited after the shutdown signal.
C15_Witness ==
    /\ shutdown
    /\ server_pc = "exited"
    /\ conns[1].pc = "refused"
    /\ \E c \in ConnIds : c > 1 /\ c \in Accepted

\* C16 (in-flight connections drain): the process does not exit while a
\* connection accepted before the shutdown signal has a task that has not
\* run to completion; no connection task is cancelled.
C16_InFlightDrain ==
    Exited => \A c \in ConnIds : conns[c].pc # "cancelled"

\* C17 (startup ordering): the heartbeat task and the listener exist only
\* once register has returned a node_id; after a failed public-IP
\* detection, TLS initialization or register neither is ever started; and
\* the region step always continues to the TLS step.
C17_StartupOrdering ==
    /\ []((heartbeat_pc # "none" \/ server_pc # "none")
            => (node_id # <<>> /\ app_pc \notin FailedStartup))
    /\ []((app_pc \in FailedStartup \/ app_pc = "exit_err")
            => (heartbeat_pc = "none" /\ server_pc = "none" /\ Accepted = {}))
    /\ [][app_pc = "region" => app_pc' = "tls"]_vars

\* C17 witness: region detection found nothing, and the node is registered
\* with both tasks started.
C17_Witness ==
    /\ ~config.node_region
    /\ node_id = ThisNode
    /\ heartbeat_pc # "none"
    /\ server_pc = "loop"

\* C18 (bind failure stops the application): when the listener cannot be
\* bound, the application eventually exits.
C18_BindFailureStops ==
    server_pc = "failed" ~> Exited


----------------------------------------------------------------------------
(* Specification of a served connection while the heartbeat task registers *)
(* the node again and reloads its configuration                            *)

\* the remote_config the controller publishes as version v: it replaces the
\* ports (443 and one port the startup Config does not allow) and the
\* tolerance together
RemoteConfigAt(v) ==
    [allowed_ports |-> Some({443, 8443 + v}), timestamp_tolerance |-> Some(v - 1)]

\* the controller of this specification: it answers a heartbeat 404 (the
\* node is gone from its registry) or 200 with one of the published
\* versions; register fails or hands out the id "M"
ReloadAnswers ==
    {[kind |-> "response", status |-> 404, body |-> [parsed |-> FALSE, node |-> None]]}
      \cup {[kind |-> "response", status |-> 200,
             body |-> [parsed |-> TRUE,
                       node |-> Some([remote_config |-> Some(RemoteConfigAt(v)),
                                      config_version |-> Some(v)])]] :
              v \in 1..MaxVersion}

ReloadController == Controller(ReloadAnswers, {None, Some(OtherNode)})

\* the requests a client sends on the open connection: CONNECT
\* example.com:443, CONNECT example.com:8444, GET http://example.com/, with
\* a credential minted now for the id "N" or for the id "M", or at the
\* edge of the startup window for "N"
ReloadRequests ==
    [method : {"CONNECT", "GET"},
     uri : {Uri(Some(Authority("example.com", Some(443))), Some(RootPath)),
            Uri(Some(Authority("example.com", Some(8444))), Some(RootPath)),
            Uri(Some(Authority("example.com", None)), Some(RootPath))},
     version : {"HTTP/1.1"},
     headers : {<<Header(NameProxyAuthorization, a)>> :
                  a \in {Minted(StampNow, ThisNode), Minted(StampNow, OtherNode),
                         Minted(StampEdge, ThisNode)}}]

InitReload ==
    /\ auth_in = NoCall
    /\ auth_out = "pending"
    /\ now = MaxTime
    /\ node_id = ThisNode
    /\ NodeServing
    /\ dynamic = from_config(config)
    /\ req \in ReloadRequests
    /\ pc = "recv"
    /\ handler = "none"
    /\ snap = NoSnapshot
    /\ target = NoTarget
    /\ resp = NoResponse
    /\ dials = <<>>
    /\ upstream_req = None
    /\ tunnel = FALSE
    /\ log = <<>>
    /\ controller = ReloadController

NextReload ==
    \/ HeartbeatSend
    \/ HeartbeatReceive
    \/ Dispatch
    \/ ConnectAuth
    \/ ConnectTarget
    \/ ConnectFilter
    \/ ConnectDial
    \/ PlainAuth
    \/ PlainTarget
    \/ PlainFilter
    \/ PlainBody
    \/ PlainDial
    \/ PlainHandshake
    \/ PlainSend

SpecReload == InitReload /\ [][NextReload]_vars

----------------------------------------------------------------------------
(* Properties of requests served across a re-registration or a reload     *)

\* the service closure has taken its snapshot and chosen a handler
Dispatched == handler # "none"

\* the step on which the service closure takes its snapshot
DispatchStep == pc = "recv" /\ handler = "none" /\ handler' # "none"

\* the handler has called validate_proxy_auth
Authenticated == auth_out # "pending"

\* the request carries a credential minted for node nid within the window
\* of the snapshot
SignedFor(nid) ==
    \E t \in {StampNow, StampEdge} :
        /\ ProxyAuthOf(req) = Some(Minted(t, nid))
        /\ AbsDiff(now, t) <= snap.timestamp_tolerance

\* the handler has run validate_target
Filtered == target.err # "none" \/ IsSome(target.addr)

\* C21 (re-registration): a request dispatched after the heartbeat task
\* stored a new node_id is authenticated against the new id, also on a
\* connection opened before: the snapshot holds the node_id of the moment
\* of the dispatch, a credential signed for it is accepted and one signed
\* for another id is not
C21_RequestsUseCurrentNodeId ==
    /\ [][DispatchStep => snap'.node_id = node_id]_vars
    /\ [](Authenticated =>
            /\ SignedFor(snap.node_id) => auth_out = "Ok"
            /\ \A nid \in NodeIds \ {snap.node_id} :
                 SignedFor(nid) => auth_out = "SignatureMismatch")

\* a request signed for the id "M" was accepted on the connection opened
\* while the node was "N", after a heartbeat found the node missing and
\* register returned "M"
C21_Witness ==
    /\ conns[1].pc = "serving"
    /\ hb.result = Some(HeartbeatErr("NodeNotFound"))
    /\ node_id = OtherNode
    /\ snap.node_id = OtherNode
    /\ SignedFor(OtherNode)
    /\ auth_out = "Ok"

\* C22 (node not found): as stated, once the controller has answered
\* NodeNotFound and register has failed on two consecutive ticks, no
\* request is accepted until a registration succeeds
C22_NoServiceWhileUnregistered ==
    [][(auth_out = "pending" /\ auth_out' = "Ok")
         => hb.reregister_failures < 2]_vars

\* C23 (port reload): a request dispatched after a reload is filtered
\* against the reloaded ports: the snapshot holds the allowed_ports of the
\* moment of the dispatch, and the filter answers PortNotAllowed exactly
\* for a port outside the snapshot
C23_ReloadedPortsApply ==
    /\ [][DispatchStep => snap'.allowed_ports = dynamic.allowed_ports]_vars
    /\ [](Filtered =>
            (target.err = "PortNotAllowed" <=> target.port \notin snap.allowed_ports))

\* on the connection opened at startup, a request to a port the startup
\* Config does not allow has passed the port check under a reloaded config
C23_Witness ==
    /\ conns[1].pc = "serving"
    /\ dynamic.config_version > 0
    /\ Filtered
    /\ target.port \notin config.allowed_ports
    /\ target.port \in snap.allowed_ports
    /\ target.err # "PortNotAllowed"

\* the snapshots a node of this specification ever installs: the one of
\* startup and one per published version
InstalledSnapshots ==
    {from_config(config)}
      \cup {ApplyRemoteConfig(from_config(config),
                              HeartbeatOk(Some(RemoteConfigAt(v)), v)) :
              v \in 1..MaxVersion}

\* C24 (no torn read): the allowed_ports and the timestamp_tolerance a
\* request runs with are those of one installed snapshot, never the ports
\* of one and the tolerance of another
C24_SnapshotNotTorn ==
    Dispatched =>
        \E d \in InstalledSnapshots :
            /\ snap.allowed_ports = d.allowed_ports
            /\ snap.timestamp_tolerance = d.timestamp_tolerance

\* a request still runs with the snapshot of startup after the heartbeat
\* task has replaced both fields
C24_Witness ==
    /\ Dispatched
    /\ pc # "done"
    /\ snap.allowed_ports # dynamic.allowed_ports
    /\ snap.timestamp_tolerance # dynamic.timestamp_tolerance


----------------------------------------------------------------------------
(* Properties of the connection tasks and of the exit of the process       *)

\* connection c was accepted and its task has looked at the first byte
Peeked(c) == conns[c].transport # "none"

ExitCode ==
    CASE app_pc = "exit_ok" -> 0
      [] app_pc = "exit_err" -> 1
      [] app_pc = "exit_usage" -> 2

\* C29 (interrupt): as stated, a process stopped by SIGINT exits with code
\* 130
C29_InterruptExitCode ==
    (Exited /\ process.signal = "SIGINT") => ExitCode = 130


----------------------------------------------------------------------------
(* Properties of the startup and of the configuration                     *)

\* some connection is being served
Serving == \E c \in ConnIds : conns[c].pc = "serving"

\* C25 (node_id): as stated, node_id is not the empty string while a
\* connection is served, whatever register returns
C25_NodeIdNonEmpty == Serving => node_id # <<>>

\* C26 (ports): as stated, the allowed_ports requests are filtered against
\* never contain port 0
C26_NoPortZero == Serving => 0 \notin dynamic.allowed_ports

\* the value field f has by the stated precedence: the command-line text,
\* else the text the variable had when the process started, else the
\* value of the file, else the default
StatedValue(f) ==
    LET n == ConfigEnvName[f] IN
        IF IsSome(process.cli[f])
        THEN ParseValue(FieldKind(f), Unwrap(process.cli[f]))
        ELSE IF IsSome(process.env0[n])
        THEN ParseValue(FieldKind(f), Unwrap(process.env0[n]))
        ELSE IF IsSome(process.file) /\ IsSome(Unwrap(process.file)[f])
        THEN Unwrap(process.file)[f]
        ELSE DefaultValue(f)

\* C28 (precedence): as stated, after the config file is injected every
\* variable that was set is unchanged, a variable that was not set holds
\* the file's value if the file has one, and the parsed value of every
\* field follows command line > environment > file > default
C28_ConfigPrecedence ==
    app_pc # "main_load" =>
        \A f \in ConfigFields :
            LET n == ConfigEnvName[f] IN
                /\ IsSome(process.env0[n]) => process.env[n] = process.env0[n]
                /\ ~IsSome(process.env0[n]) =>
                     process.env[n] =
                         IF IsSome(process.file) /\ IsSome(Unwrap(process.file)[f])
                         THEN Some(to_string(FieldKind(f), Unwrap(Unwrap(process.file)[f])))
                         ELSE None
                /\ (IsSome(process.parsed) /\ Unwrap(process.parsed).kind = "ok") =>
                     Unwrap(process.parsed).config[f] = StatedValue(f)


----------------------------------------------------------------------------
(* Properties of the statuses and of the forwarded request                 *)

\* the handler logged an event with this message
Logged(message) == \E i \in 1..Len(log) : log[i].message = message

\* handle_plain has returned its response
PlainDone == pc = "done" /\ handler = "plain"

\* the dial, the HTTP handshake or the send to the upstream failed
UpstreamFailed ==
    \/ Logged("HTTP proxy connection failed")
    \/ Logged("HTTP handshake failed")
    \/ Logged("HTTP proxy request failed")

\* the response carries an X-Error header
HasXError(r) == \E i \in 1..Len(r.headers) : r.headers[i][1] = "X-Error"

\* C31 (plain statuses): the status of a plain forward request is 407 for
\* an authentication failure; else 400 for a URI without host; else 403
\* for a target the filter rejects; else 502 with X-Error for a failed
\* dial, handshake or send; the upstream's own response is passed on only
\* when none of these happened
C31_PlainStatusPrecedence ==
    PlainDone =>
        /\ IF auth_out # "Ok" THEN resp.status = 407
           ELSE IF ~IsSome(UriHost(req.uri)) THEN resp.status = 400
           ELSE IF target.err # "none" \/ target.port \notin snap.allowed_ports
           THEN resp.status = 403
           ELSE IF UpstreamFailed THEN resp.status = 502 /\ HasXError(resp)
           ELSE TRUE
        /\ resp.body = "upstream" =>
             /\ auth_out = "Ok"
             /\ IsSome(UriHost(req.uri))
             /\ target.err = "none"
             /\ ~UpstreamFailed
             /\ resp.status \in UpstreamStatuses

\* a request with a wrong signature and a URI without host was answered
\* 407, not 400
C31_Witness ==
    /\ PlainDone
    /\ auth_out = "SignatureMismatch"
    /\ ~IsSome(UriHost(req.uri))
    /\ resp.status = 407


\* handle_connect has returned its response
ConnectDone == pc = "done" /\ handler = "connect"

\* the upstream TCP connection of the CONNECT request is established
UpstreamConnected ==
    Len(dials) = 1 /\ ~Logged("CONNECT target connection failed")

\* C32 (CONNECT statuses): handle_connect answers 200 only once the
\* upstream connection is established and starts the tunnel task only
\* then, in the step that answers 200; its status is one of 200, 400, 403,
\* 407, 502; a failed dial is answered 502 and, after authentication, a
\* target without authority 400
C32_ConnectStatuses ==
    /\ [](handler = "connect" =>
            /\ tunnel => UpstreamConnected /\ ConnectDone /\ resp.status = 200
            /\ ConnectDone =>
                 /\ resp.status \in {200, 400, 403, 407, 502}
                 /\ resp.status = 200 => UpstreamConnected /\ tunnel
                 /\ Logged("CONNECT target connection failed") => resp.status = 502
                 /\ (auth_out = "Ok" /\ ~IsSome(req.uri.authority)) => resp.status = 400)
    /\ [][(~tunnel /\ tunnel') => (pc = "dial" /\ resp'.status = 200)]_vars

\* a CONNECT request was answered 200 with the tunnel task started after
\* one successful dial
C32_Witness ==
    /\ ConnectDone
    /\ resp.status = 200
    /\ tunnel
    /\ Len(dials) = 1


----------------------------------------------------------------------------
(* Specification of a CONNECT request and of its tunnel task               *)

\* CONNECT example.com:443 and CONNECT example.com:22 with a credential
\* minted now or at the edge of the window, or one signed for the other
\* node
TunnelRequests ==
    [method : {"CONNECT"},
     uri : {Uri(Some(Authority("example.com", Some(443))), None),
            Uri(Some(Authority("example.com", Some(22))), None)},
     version : {"HTTP/1.1"},
     headers : {<<Header(NameProxyAuthorization, a)>> :
                  a \in {Minted(StampNow, ThisNode), Minted(StampEdge, ThisNode),
                         Minted(StampNow, OtherNode)}}]

InitTunnel ==
    /\ auth_in = NoCall
    /\ auth_out = "pending"
    /\ now = MaxTime
    /\ node_id = ThisNode
    /\ dynamic = InitialDynamic
    /\ req \in TunnelRequests
    /\ pc = "recv"
    /\ handler = "none"
    /\ snap = NoSnapshot
    /\ target = NoTarget
    /\ resp = NoResponse
    /\ dials = <<>>
    /\ upstream_req = None
    /\ tunnel = FALSE
    /\ log = <<>>
    /\ controller = NoController
    /\ NodeServing

NextTunnel ==
    \/ Dispatch
    \/ ConnectAuth
    \/ ConnectTarget
    \/ ConnectFilter
    \/ ConnectDial
    \/ TunnelUpgrade
    \/ \E dir \in Directions : TunnelCopy(dir)
    \/ \E dir \in Directions : TunnelEof(dir)
    \/ \E dir \in Directions : TunnelError(dir)

SpecTunnel == InitTunnel /\ [][NextTunnel]_vars

\* both directions of the copy have finished; some direction has failed
BothDone == \A dir \in Directions : relay[dir] = "done"
SomeFailed == \E dir \in Directions : relay[dir] = "failed"

\* C34 (tunnel relay): while the task copies it holds the upstream socket
\* and no direction has failed; end-of-stream on one direction leaves the
\* other direction open and the task copying, and the open direction can
\* still move data; the task ends the copy exactly when both directions
\* are done or one fails, and has then released the upstream socket
C34_TunnelRelay ==
    /\ [](/\ relay.pc = "copy" =>
               /\ ~BothDone /\ ~SomeFailed
               /\ relay.target_stream = "held"
               /\ \A dir \in Directions :
                    (relay[dir] = "open" /\ relay[Counter(dir)] < MaxChunks)
                      => ENABLED TunnelCopy(dir)
          /\ (relay.pc = "ended" /\ relay.outcome # "upgrade_failed") =>
               /\ BothDone \/ SomeFailed
               /\ relay.outcome = "closed" <=> BothDone
               /\ relay.outcome = "error" <=> SomeFailed
          /\ relay.pc = "ended" => relay.target_stream = "released")
    /\ [][\A dir \in Directions :
            (relay.pc = "copy" /\ relay[dir] = "open" /\ relay'[dir] = "done"
               /\ relay[Opposite(dir)] = "open")
              => relay'.pc = "copy" /\ relay'[Opposite(dir)] = "open"]_vars

\* the client closed its side before sending anything, and the target has
\* since sent MaxChunks chunks through the tunnel, which is still copying
C34_Witness ==
    /\ relay.pc = "copy"
    /\ relay.client_to_target = "done"
    /\ relay.target_to_client = "open"
    /\ relay.from_client = 0
    /\ relay.from_target = MaxChunks

----------------------------------------------------------------------------
(* Specification of the shutdown: a serving node whose controller may     *)
(* answer a heartbeat 404, register the node again under the id "M", and  *)
(* answer the unregister request in any way                                *)

InitShutdown ==
    /\ auth_in = NoCall
    /\ auth_out = "pending"
    /\ now = MaxTime
    /\ node_id = ThisNode
    /\ NodeServing
    /\ dynamic = from_config(config)
    /\ req = <<>>
    /\ pc = "idle"
    /\ handler = "none"
    /\ snap = NoSnapshot
    /\ target = NoTarget
    /\ resp = NoResponse
    /\ dials = <<>>
    /\ upstream_req = None
    /\ tunnel = FALSE
    /\ log = <<>>
    /\ controller = ReloadController

NextShutdown ==
    \/ AppSignal
    \/ AppSendShutdown
    \/ AppUnregister
    \/ AppJoin
    \/ ProcessExit
    \/ HeartbeatSend
    \/ HeartbeatReceive
    \/ HeartbeatExit
    \/ ServerShutdown
    \/ \E c \in ConnIds : ConnServeEnd(c)

SpecShutdown == InitShutdown /\ [][NextShutdown]_vars

\* the scheduler's fairness: a task that can take its step takes it.  The
\* heartbeat loop selects between its interval and the shutdown channel;
\* once the flag is broadcast the channel's branch is ready at every turn
\* of the loop, and select! does not starve a ready branch.
ShutdownFairness ==
    /\ WF_vars(AppSendShutdown)
    /\ WF_vars(AppUnregister)
    /\ WF_vars(AppJoin)
    /\ WF_vars(ProcessExit)
    /\ WF_vars(HeartbeatReceive)
    /\ SF_vars(HeartbeatExit)
    /\ WF_vars(ServerShutdown)

SpecShutdownFair == SpecShutdown /\ ShutdownFairness

----------------------------------------------------------------------------
(* Properties of the shutdown sequence                                     *)

\* the unregister requests sent so far
Unregistered == controller.unregistered

\* both spawned tasks have finished
TasksJoined == heartbeat_pc = "exited" /\ server_pc \in {"exited", "failed"}

\* the unregister request was sent and failed
UnregisterFailed == Unregistered # <<>> /\ Unregistered[1].result = "Err"

\* C35 (shutdown sequence): after the signal the flag is broadcast first,
\* unregister is called next, and only then run waits for the heartbeat
\* task and the server task; run returns success once both have finished,
\* whether unregister succeeded or failed, and it does finish
C35_ShutdownSequence ==
    /\ [](/\ app_pc = "send_shutdown" => (~shutdown /\ Unregistered = <<>>)
          /\ app_pc = "unregister" => (shutdown /\ Unregistered = <<>>)
          /\ app_pc \in {"join", "stopped", "exit_ok"} =>
               (shutdown /\ Unregistered # <<>>)
          /\ app_pc \in {"stopped", "exit_ok"} => TasksJoined
          /\ app_pc # "exit_err")
    /\ [][/\ (app_pc = "send_shutdown" /\ app_pc' # app_pc) => app_pc' = "unregister"
          /\ (app_pc = "unregister" /\ app_pc' # app_pc) => app_pc' = "join"
          /\ (app_pc = "join" /\ app_pc' # app_pc) => app_pc' = "stopped"
          /\ (app_pc = "stopped" /\ app_pc' # app_pc) => app_pc' = "exit_ok"]_vars
    /\ (app_pc = "send_shutdown") ~> (app_pc = "exit_ok")
    /\ UnregisterFailed ~> (app_pc = "exit_ok")

\* C35 witness: unregister failed, both tasks were joined and the process
\* has exited with success.
C35_Witness ==
    /\ UnregisterFailed
    /\ TasksJoined
    /\ app_pc = "exit_ok"

\* C36 (one unregister with the current node_id): no unregister request is
\* sent before the shutdown flag is broadcast, never more than one is sent,
\* one has been sent when run starts waiting for the tasks, and the request
\* carries the node_id the shared state holds when it is sent
C36_OneUnregisterCurrentId ==
    /\ [](/\ Len(Unregistered) <= 1
          /\ Unregistered # <<>> => shutdown
          /\ app_pc \in {"join", "stopped", "exit_ok"} => Len(Unregistered) = 1)
    /\ [][controller'.unregistered # Unregistered =>
            /\ Unregistered = <<>>
            /\ shutdown
            /\ Len(controller'.unregistered) = 1
            /\ controller'.unregistered[1].node_id = node_id]_vars

\* C36 witness: the node registered as "N" at startup, registered again as
\* "M" after a heartbeat was answered 404, and the unregister request sent
\* at shutdown names "M".
C36_Witness ==
    /\ node_id = OtherNode
    /\ Len(Unregistered) = 1
    /\ Unregistered[1].node_id = OtherNode
    /\ app_pc = "exit_ok"

============================================================================
